---- MODULE Spec2Model ----
(***************************************************************************)
(* Verification model of the FinanceSe backend (src/app): category label   *)
(* canonicalization, account-type parsing, amount sign normalization,      *)
(* transaction classification and the reporting aggregates built on them;   *)
(* description normalization, the statement parsers for CSV and PDF        *)
(* uploads (amounts, date tokens, tables and text lines), the keyword      *)
(* rules and the trainable categorizer.                                    *)
(*                                                                         *)
(* Text is modelled as a sequence of one-character strings, so that        *)
(* str.strip(), str.lower(), str.startswith() and set membership are       *)
(* computed character by character as Python computes them.  Python's None *)
(* is the one-element sequence None, whose element is no character.        *)
(* Money is counted in cents: the amount columns are Numeric(12, 2)        *)
(* (src/app/models.py:63), so every stored amount is an integer number of  *)
(* cents.                                                                  *)
(***************************************************************************)
EXTENDS Integers, Sequences, FiniteSets, TLC

VARIABLES
    \* --- one call of a pure helper (Spec) ---
    arg,        \* the call's arguments, e.g. [amount, account_type, category]
    op,         \* which function has been applied to arg ("none" before the call)
    ret,        \* what it returned
    \* --- the transactions of one reporting period (AggSpec) ---
    rows,       \* the query result: a sequence of (transaction, account type) rows
    response,   \* the last response computed from rows
    \* --- the accounts table and its balances (WorthSpec) ---
    accounts,   \* a sequence of [type, latest_balance, amounts]
    net_worth,  \* the last net worth computed from accounts
    \* --- the categorizer (CategorizerSpec) ---
    bundle,     \* SmartCategorizer._bundle: NULL or <<the loaded bundle>>
    model_file, \* the file at model_path: NULL or <<the persisted bundle>>
    \* --- the override store and the threads that call it (OverrideSpec) ---
    overrides_file, \* the file at OVERRIDES_PATH: absent, a JSON document, or cut short
    lock,           \* _LOCK: NULL or <<the thread that holds it>>
    threads,        \* per thread: the call it runs, its position and its locals
    recorded,       \* history: per key, the category of the latest record_override
    \* --- a predict call and a train call in progress (SwapSpec) ---
    predicting,     \* the predict call: its position and what it has read so far
    training,       \* the train call: its position and the bundle it has built
    \* --- the transactions table (StoreSpec) ---
    stored          \* the rows of the table, each with the type of its account

callVars == <<arg, op, ret>>
aggVars == <<rows, response>>
worthVars == <<accounts, net_worth>>
categorizerVars == <<bundle, model_file>>
overrideVars == <<overrides_file, lock, threads, recorded>>
swapVars == <<predicting, training>>
storeVars == <<stored>>
serviceVars == <<overrideVars, swapVars, storeVars>>
vars == <<arg, op, ret, rows, response, accounts, net_worth, bundle, model_file, serviceVars>>

----
\* Bounds of the model.

\* amounts of a single call range over -MaxAmt..MaxAmt cents
MaxAmt == 2
\* a label carries at most MaxPad blanks on each side
MaxPad == 1
\* a reporting period holds at most MaxRows transactions
MaxRows == 3
\* the accounts table holds at most MaxAccounts accounts
MaxAccounts == 2

----
\* Python values.

\* Python's None, where a str is expected
None == <<"None">>

\* the empty str
EmptyStr == <<>>

UpperChars == <<"A", "B", "C", "D", "E", "F", "G", "H", "I", "J", "K", "L", "M", "N", "O", "P", "Q", "R", "S", "T", "U", "V", "W", "X", "Y", "Z">>
LowerChars == <<"a", "b", "c", "d", "e", "f", "g", "h", "i", "j", "k", "l", "m", "n", "o", "p", "q", "r", "s", "t", "u", "v", "w", "x", "y", "z">>

\* the characters str.strip() removes (those that occur in the model's inputs)
Whitespace == {" ", "\t", "\n"}

\* the letters that have another case, each with its lower case and its upper case
LowerOf == [c \in {UpperChars[i] : i \in 1..Len(UpperChars)} |->
               LowerChars[CHOOSE i \in 1..Len(UpperChars) : UpperChars[i] = c]]
UpperOf == [c \in {LowerChars[i] : i \in 1..Len(LowerChars)} |->
               UpperChars[CHOOSE i \in 1..Len(LowerChars) : LowerChars[i] = c]]

lower_char(c) == IF c \in DOMAIN LowerOf THEN LowerOf[c] ELSE c

upper_char(c) == IF c \in DOMAIN UpperOf THEN UpperOf[c] ELSE c

\* str.lower()
lower(s) == [i \in 1..Len(s) |-> lower_char(s[i])]

\* str.upper()
upper(s) == [i \in 1..Len(s) |-> upper_char(s[i])]

\* str.lstrip(): drop the leading whitespace
RECURSIVE lstrip(_)
lstrip(s) ==
    IF s # <<>> /\ Head(s) \in Whitespace THEN lstrip(Tail(s)) ELSE s

\* str.rstrip(): drop the trailing whitespace
RECURSIVE rstrip(_)
rstrip(s) ==
    IF s # <<>> /\ s[Len(s)] \in Whitespace THEN rstrip(SubSeq(s, 1, Len(s) - 1)) ELSE s

\* str.strip()
strip(s) == rstrip(lstrip(s))

\* str.startswith(prefix)
startswith(s, prefix) ==
    Len(s) >= Len(prefix) /\ SubSeq(s, 1, Len(prefix)) = prefix

\* `x or default` on an Optional[str]: None and "" are falsy
or_else(x, default) == IF x = None \/ x = EmptyStr THEN default ELSE x

\* abs()
abs(n) == IF n < 0 THEN -n ELSE n

----
\* src/app/category_labels.py

ACCOUNT_TRANSFER_CATEGORY == <<"A", "c", "c", "o", "u", "n", "t", " ", "T", "r", "a", "n", "s", "f", "e", "r">>

_TRANSFER_CATEGORY_ALIASES ==
    { lower(ACCOUNT_TRANSFER_CATEGORY),
      <<"c", "r", "e", "d", "i", "t", " ", "p", "a", "y", "m", "e", "n", "t">> }

INVESTMENT_CATEGORY == <<"I", "n", "v", "e", "s", "t", "m", "e", "n", "t">>

_INVESTMENT_NORMALIZED == lower(INVESTMENT_CATEGORY)

_INVESTMENT_CATEGORY_ALIASES ==
    { _INVESTMENT_NORMALIZED,
      <<"i", "n", "v", "e", "s", "t", "m", "e", "n", "t", "s">>,
      <<"i", "n", "v", "e", "s", "t", "m", "e", "n", "t", " ", "c", "o", "n", "t", "r", "i", "b", "u", "t", "i", "o", "n">>,
      <<"i", "n", "v", "e", "s", "t", "m", "e", "n", "t", " ", "t", "r", "a", "n", "s", "f", "e", "r">>,
      <<"r", "r", "s", "p">>,
      <<"t", "f", "s", "a">>,
      <<"r", "s", "p">>,
      <<"f", "h", "s", "a">>,
      <<"r", "e", "t", "i", "r", "e", "m", "e", "n", "t", " ", "c", "o", "n", "t", "r", "i", "b", "u", "t", "i", "o", "n">> }

\* _normalize(category): (category or "").strip().lower()
_normalize(category) == lower(strip(or_else(category, EmptyStr)))

\* a slip canonicalize_category could have: the aliases are looked up under the
\* lowercased label before it is trimmed
canonicalize_category_untrimmed_lookup(category) ==
    IF category = None THEN None
    ELSE LET trimmed == strip(category)
             normalized == lower(category)
         IN  IF trimmed = EmptyStr THEN None
             ELSE IF normalized \in _TRANSFER_CATEGORY_ALIASES THEN ACCOUNT_TRANSFER_CATEGORY
             ELSE IF \/ normalized \in _INVESTMENT_CATEGORY_ALIASES
                     \/ startswith(normalized, _INVESTMENT_NORMALIZED)
                  THEN INVESTMENT_CATEGORY
             ELSE trimmed

canonicalize_category(category) ==
    IF category = None THEN None
    ELSE LET trimmed == strip(category)
             normalized == lower(trimmed)
         IN  IF trimmed = EmptyStr THEN None
             ELSE IF normalized \in _TRANSFER_CATEGORY_ALIASES THEN ACCOUNT_TRANSFER_CATEGORY
             ELSE IF \/ normalized \in _INVESTMENT_CATEGORY_ALIASES
                     \/ startswith(normalized, _INVESTMENT_NORMALIZED)
                  THEN INVESTMENT_CATEGORY
             ELSE trimmed

is_transfer_category(category) == _normalize(category) \in _TRANSFER_CATEGORY_ALIASES

is_investment_category(category) ==
    LET normalized == _normalize(category)
    IN  IF normalized = EmptyStr THEN FALSE
        ELSE \/ normalized \in _INVESTMENT_CATEGORY_ALIASES
             \/ startswith(normalized, _INVESTMENT_NORMALIZED)

----
\* src/app/account_types.py

\* the members of AccountType, in declaration order, and their values
AccountType ==
    << [name |-> "CHEQUING", value |-> <<"c", "h", "e", "q", "u", "i", "n", "g">>],
       [name |-> "SAVINGS", value |-> <<"s", "a", "v", "i", "n", "g", "s">>],
       [name |-> "CASH", value |-> <<"c", "a", "s", "h">>],
       [name |-> "CREDIT", value |-> <<"c", "r", "e", "d", "i", "t">>],
       [name |-> "LINE_OF_CREDIT", value |-> <<"l", "i", "n", "e", "_", "o", "f", "_", "c", "r", "e", "d", "i", "t">>],
       [name |-> "TFSA", value |-> <<"t", "f", "s", "a">>],
       [name |-> "RRSP", value |-> <<"r", "r", "s", "p">>],
       [name |-> "RSP", value |-> <<"r", "s", "p">>],
       [name |-> "RESP", value |-> <<"r", "e", "s", "p">>],
       [name |-> "BROKERAGE", value |-> <<"b", "r", "o", "k", "e", "r", "a", "g", "e">>],
       [name |-> "INVESTMENT", value |-> <<"i", "n", "v", "e", "s", "t", "m", "e", "n", "t">>],
       [name |-> "LOAN", value |-> <<"l", "o", "a", "n">>],
       [name |-> "FHSA", value |-> <<"f", "h", "s", "a">>] >>

CASH_ACCOUNT_TYPES == {"CHEQUING", "SAVINGS", "CASH"}

INVESTMENT_ACCOUNT_TYPES == {"TFSA", "RRSP", "RSP", "RESP", "BROKERAGE", "INVESTMENT", "FHSA"}

CREDIT_ACCOUNT_TYPES == {"CREDIT", "LINE_OF_CREDIT", "LOAN"}

\* parse_account_type(value): the first member whose value is (value or "").lower(),
\* and CHEQUING when there is none
parse_account_type(value) ==
    LET normalized == lower(or_else(value, EmptyStr))
        hits == {i \in 1..Len(AccountType) : AccountType[i].value = normalized}
    IN  IF hits = {} THEN "CHEQUING"
        ELSE AccountType[CHOOSE i \in hits : \A j \in hits : i <= j].name

----
\* src/app/transaction_logic.py

\* TransactionClassification(amount, counts_income=False, counts_expense=False,
\* counts_invested=False, is_transfer=False)
TransactionClassification(amount, counts_income, counts_expense, counts_invested, is_transfer) ==
    [amount |-> amount, counts_income |-> counts_income, counts_expense |-> counts_expense,
     counts_invested |-> counts_invested, is_transfer |-> is_transfer]

\* a slip normalize_transaction_amount could have: the label is compared with the
\* canonical transfer name as given, without canonicalizing it
normalize_transaction_amount_raw_label(amount, account_type_value, category) ==
    LET account_type == parse_account_type(account_type_value)
        magnitude == abs(amount)
    IN  IF account_type \notin CREDIT_ACCOUNT_TYPES THEN amount
        ELSE IF category = ACCOUNT_TRANSFER_CATEGORY THEN magnitude
        ELSE -magnitude

\* normalize_transaction_amount(amount, account_type_value, category); its callers
\* pass a number (TransactionCreate.amount, Decimal(amount_value)), so the branch
\* `amount is None`, which returns None, is not taken
normalize_transaction_amount(amount, account_type_value, category) ==
    LET account_type == parse_account_type(account_type_value)
        category_label == canonicalize_category(category)
        magnitude == abs(amount)
    IN  IF account_type \notin CREDIT_ACCOUNT_TYPES THEN amount
        ELSE IF /\ category_label # None
                /\ category_label # EmptyStr
                /\ is_transfer_category(category_label)
             THEN magnitude
        ELSE -magnitude

\* a slip classify_transaction could have: the tags are set one by one instead of
\* returned, income by the sign and expense by the family or the sign
classify_transaction_tag_by_tag(txn, account_type_value) ==
    LET account_type == parse_account_type(account_type_value)
        amount == txn.amount
        category == canonicalize_category(txn.category)
    IN  IF amount = 0 THEN TransactionClassification(0, FALSE, FALSE, FALSE, FALSE)
        ELSE IF is_transfer_category(category)
             THEN TransactionClassification(amount, FALSE, FALSE, FALSE, TRUE)
        ELSE IF account_type \in INVESTMENT_ACCOUNT_TYPES \/ is_investment_category(category)
             THEN TransactionClassification(abs(amount), FALSE, FALSE, TRUE, FALSE)
        ELSE TransactionClassification(amount, amount > 0,
                 account_type \in CREDIT_ACCOUNT_TYPES \/ amount < 0, FALSE, FALSE)

\* a slip classify_transaction could have: the investment check comes first
classify_transaction_investment_first(txn, account_type_value) ==
    LET account_type == parse_account_type(account_type_value)
        amount == txn.amount
        category == canonicalize_category(txn.category)
    IN  IF amount = 0 THEN TransactionClassification(0, FALSE, FALSE, FALSE, FALSE)
        ELSE IF account_type \in INVESTMENT_ACCOUNT_TYPES \/ is_investment_category(category)
             THEN TransactionClassification(abs(amount), FALSE, FALSE, TRUE, FALSE)
        ELSE IF is_transfer_category(category)
             THEN TransactionClassification(amount, FALSE, FALSE, FALSE, TRUE)
        ELSE IF account_type \in CREDIT_ACCOUNT_TYPES
             THEN TransactionClassification(amount, FALSE, TRUE, FALSE, FALSE)
        ELSE IF amount > 0 THEN TransactionClassification(amount, TRUE, FALSE, FALSE, FALSE)
        ELSE TransactionClassification(amount, FALSE, TRUE, FALSE, FALSE)

\* a slip classify_transaction could have: an invested amount keeps its sign
classify_transaction_signed_invested(txn, account_type_value) ==
    LET account_type == parse_account_type(account_type_value)
        amount == txn.amount
        category == canonicalize_category(txn.category)
    IN  IF amount = 0 THEN TransactionClassification(0, FALSE, FALSE, FALSE, FALSE)
        ELSE IF is_transfer_category(category)
             THEN TransactionClassification(amount, FALSE, FALSE, FALSE, TRUE)
        ELSE IF account_type \in INVESTMENT_ACCOUNT_TYPES \/ is_investment_category(category)
             THEN TransactionClassification(amount, FALSE, FALSE, TRUE, FALSE)
        ELSE IF account_type \in CREDIT_ACCOUNT_TYPES
             THEN TransactionClassification(amount, FALSE, TRUE, FALSE, FALSE)
        ELSE IF amount > 0 THEN TransactionClassification(amount, TRUE, FALSE, FALSE, FALSE)
        ELSE TransactionClassification(amount, FALSE, TRUE, FALSE, FALSE)

\* a slip classify_transaction could have: a credit-family account is dispatched
\* on the sign, like every other family
classify_transaction_credit_by_sign(txn, account_type_value) ==
    LET amount == txn.amount
        category == canonicalize_category(txn.category)
        account_type == parse_account_type(account_type_value)
    IN  IF amount = 0 THEN TransactionClassification(0, FALSE, FALSE, FALSE, FALSE)
        ELSE IF is_transfer_category(category)
             THEN TransactionClassification(amount, FALSE, FALSE, FALSE, TRUE)
        ELSE IF account_type \in INVESTMENT_ACCOUNT_TYPES \/ is_investment_category(category)
             THEN TransactionClassification(abs(amount), FALSE, FALSE, TRUE, FALSE)
        ELSE IF amount > 0 THEN TransactionClassification(amount, TRUE, FALSE, FALSE, FALSE)
        ELSE TransactionClassification(amount, FALSE, TRUE, FALSE, FALSE)

\* classify_transaction(txn, account_type_value); txn.amount is a non-null column,
\* so float(txn.amount or 0) is the amount itself
classify_transaction(txn, account_type_value) ==
    LET account_type == parse_account_type(account_type_value)
        amount == txn.amount
        category == canonicalize_category(txn.category)
    IN  IF amount = 0 THEN TransactionClassification(0, FALSE, FALSE, FALSE, FALSE)
        ELSE IF is_transfer_category(category)
             THEN TransactionClassification(amount, FALSE, FALSE, FALSE, TRUE)
        ELSE IF account_type \in INVESTMENT_ACCOUNT_TYPES \/ is_investment_category(category)
             THEN TransactionClassification(abs(amount), FALSE, FALSE, TRUE, FALSE)
        ELSE IF account_type \in CASH_ACCOUNT_TYPES
             THEN IF amount > 0 THEN TransactionClassification(amount, TRUE, FALSE, FALSE, FALSE)
                  ELSE IF amount < 0 THEN TransactionClassification(amount, FALSE, TRUE, FALSE, FALSE)
                  ELSE TransactionClassification(amount, FALSE, FALSE, FALSE, FALSE)
        ELSE IF account_type \in CREDIT_ACCOUNT_TYPES
             THEN TransactionClassification(amount, FALSE, TRUE, FALSE, FALSE)
        ELSE IF amount > 0 THEN TransactionClassification(amount, TRUE, FALSE, FALSE, FALSE)
        ELSE IF amount < 0 THEN TransactionClassification(amount, FALSE, TRUE, FALSE, FALSE)
        ELSE TransactionClassification(amount, FALSE, FALSE, FALSE, FALSE)

----
\* src/app/services/transaction_metrics.py and src/app/routers/transactions.py
\*
\* A row is [txn |-> [amount, category], account_type |-> the joined Account.type].
\* A dict is the sequence of its [category, total_amount] items in insertion order.

UNCATEGORIZED == <<"U", "n", "c", "a", "t", "e", "g", "o", "r", "i", "z", "e", "d">>

\* Optional[Decimal]: NULL, or <<b>> for the balance b
NULL == <<>>

AggregateTotals(income, expenses, invested) ==
    [income |-> income, expenses |-> expenses, invested |-> invested]

\* a slip the aggregators could have: the expense is added as classified
expense_amount_of_as_classified(classification) == classification.amount

\* expense_amount = classification.amount; if expense_amount > 0: -abs(expense_amount)
expense_amount_of(classification) ==
    IF classification.amount > 0 THEN -abs(classification.amount) ELSE classification.amount

\* the body of aggregate_transactions' loop, for one row
aggregate_row(totals, row) ==
    LET classification == classify_transaction(row.txn, row.account_type)
    IN  AggregateTotals(
            IF classification.counts_income
                THEN totals.income + classification.amount ELSE totals.income,
            IF classification.counts_expense
                THEN totals.expenses + expense_amount_of(classification) ELSE totals.expenses,
            IF classification.counts_invested
                THEN totals.invested + classification.amount ELSE totals.invested)

RECURSIVE aggregate_rows(_, _)
aggregate_rows(totals, rs) ==
    IF rs = <<>> THEN totals ELSE aggregate_rows(aggregate_row(totals, Head(rs)), Tail(rs))

aggregate_transactions(rs) == aggregate_rows(AggregateTotals(0, 0, 0), rs)

\* _calculate_transaction_totals(rows): the router's copy of the same loop, which
\* returns the tuple (total_income, total_expenses, total_invested)
RECURSIVE _calculate_transaction_totals_loop(_, _)
_calculate_transaction_totals_loop(t, rs) ==
    IF rs = <<>> THEN t
    ELSE LET classification == classify_transaction(Head(rs).txn, Head(rs).account_type)
             total_income ==
                 IF classification.counts_income THEN t[1] + classification.amount ELSE t[1]
             total_expenses ==
                 IF classification.counts_expense
                 THEN t[2] + (IF classification.amount > 0
                              THEN -abs(classification.amount) ELSE classification.amount)
                 ELSE t[2]
             total_invested ==
                 IF classification.counts_invested THEN t[3] + classification.amount ELSE t[3]
         IN  _calculate_transaction_totals_loop(
                 <<total_income, total_expenses, total_invested>>, Tail(rs))

_calculate_transaction_totals(rs) == _calculate_transaction_totals_loop(<<0, 0, 0>>, rs)

\* totals[category_label] += expense_amount on a defaultdict(float)
dict_add(d, key, amount) ==
    IF \E i \in 1..Len(d) : d[i].category = key
    THEN [i \in 1..Len(d) |->
            IF d[i].category = key
            THEN [category |-> key, total_amount |-> d[i].total_amount + amount]
            ELSE d[i]]
    ELSE Append(d, [category |-> key, total_amount |-> amount])

\* sorted(totals.items(), key=lambda item: item[1]): a stable sort, ascending
RECURSIVE sorted_insert(_, _)
sorted_insert(out, item) ==
    IF out = <<>> THEN <<item>>
    ELSE IF out[Len(out)].total_amount <= item.total_amount THEN Append(out, item)
    ELSE Append(sorted_insert(SubSeq(out, 1, Len(out) - 1), item), out[Len(out)])

RECURSIVE sorted_by_total_from(_, _)
sorted_by_total_from(out, items) ==
    IF items = <<>> THEN out
    ELSE sorted_by_total_from(sorted_insert(out, Head(items)), Tail(items))

\* a slip the breakdowns could have: sorted(..., reverse=True)
sorted_by_total_descending(items) ==
    LET asc == sorted_by_total_from(<<>>, items)
    IN  [i \in 1..Len(asc) |-> asc[Len(asc) + 1 - i]]

sorted_by_total(items) == sorted_by_total_from(<<>>, items)

\* the loop of build_category_breakdown
RECURSIVE build_category_breakdown_loop(_, _)
build_category_breakdown_loop(totals, rs) ==
    IF rs = <<>> THEN totals
    ELSE LET txn == Head(rs).txn
             classification == classify_transaction(txn, Head(rs).account_type)
             category_label == or_else(canonicalize_category(txn.category), UNCATEGORIZED)
         IN  IF ~classification.counts_expense
             THEN build_category_breakdown_loop(totals, Tail(rs))
             ELSE build_category_breakdown_loop(
                      dict_add(totals, category_label, expense_amount_of(classification)),
                      Tail(rs))

build_category_breakdown(rs) == sorted_by_total(build_category_breakdown_loop(<<>>, rs))

\* the loop of get_expenses_by_category
RECURSIVE get_expenses_by_category_loop(_, _)
get_expenses_by_category_loop(totals, rs) ==
    IF rs = <<>> THEN totals
    ELSE LET txn == Head(rs).txn
             raw_category == or_else(txn.category, UNCATEGORIZED)
             category_label == or_else(canonicalize_category(raw_category), UNCATEGORIZED)
             classification == classify_transaction(txn, Head(rs).account_type)
         IN  IF ~classification.counts_expense
             THEN get_expenses_by_category_loop(totals, Tail(rs))
             ELSE get_expenses_by_category_loop(
                      dict_add(totals, category_label,
                               IF classification.amount > 0
                               THEN -abs(classification.amount) ELSE classification.amount),
                      Tail(rs))

get_expenses_by_category(rs) == sorted_by_total(get_expenses_by_category_loop(<<>>, rs))

\* net_flow / total_income: the quotient, kept exact as numerator over denominator
Quotient(n, d) == [num |-> n, den |-> d]

\* the float 0.0
Zero == [num |-> 0, den |-> 1]

\* a slip get_transaction_summary could have: invested money is added back
get_transaction_summary_totals_invested_added(rs) ==
    LET t == _calculate_transaction_totals(rs)
        net_flow == t[1] + t[2] + t[3]
    IN  [total_income |-> t[1], total_expenses |-> t[2], total_invested |-> t[3],
         net_flow |-> net_flow,
         savings_rate |-> IF t[1] > 0 THEN Quotient(net_flow, t[1]) ELSE Zero]

\* get_transaction_summary, lines 112-125: the totals of the period's rows
get_transaction_summary_totals(rs) ==
    LET t == _calculate_transaction_totals(rs)
        total_income == t[1]
        total_expenses == t[2]
        total_invested == t[3]
        net_flow == total_income + total_expenses - total_invested
        savings_rate == IF total_income > 0 THEN Quotient(net_flow, total_income) ELSE Zero
    IN  [total_income |-> total_income, total_expenses |-> total_expenses,
         total_invested |-> total_invested, net_flow |-> net_flow,
         savings_rate |-> savings_rate]

\* SELECT coalesce(sum(Transaction.amount), 0) over the account's transactions:
\* SUM over no row is NULL
RECURSIVE sum_amounts(_)
sum_amounts(amounts) ==
    IF amounts = <<>> THEN 0 ELSE Head(amounts) + sum_amounts(Tail(amounts))

sql_sum(amounts) == IF amounts = <<>> THEN NULL ELSE <<sum_amounts(amounts)>>

coalesce(x, default) == IF x = NULL THEN default ELSE x[1]

\* get_transaction_summary, lines 127-137: one tuple (id, type, latest_balance,
\* txn_sum) per account
balances_query(accts) ==
    [i \in 1..Len(accts) |->
        <<i, accts[i].type, accts[i].latest_balance, coalesce(sql_sum(accts[i].amounts), 0)>>]

\* a slip the net worth could have: `if latest_balance` instead of `is not None`,
\* so that a stored balance of 0 falls back to the transactions
balance_value_of_truthy(latest_balance, txn_sum) ==
    IF latest_balance # NULL /\ latest_balance[1] # 0 THEN latest_balance[1] ELSE txn_sum

\* float(latest_balance) if latest_balance is not None else float(txn_sum or 0)
balance_value_of(latest_balance, txn_sum) ==
    IF latest_balance # NULL THEN latest_balance[1] ELSE txn_sum

\* calculate_net_worth(balances), of the metrics service
RECURSIVE calculate_net_worth_loop(_, _)
calculate_net_worth_loop(nw, balances) ==
    IF balances = <<>> THEN nw
    ELSE LET account_type == parse_account_type(Head(balances)[2])
             balance_value == balance_value_of(Head(balances)[3], Head(balances)[4])
         IN  calculate_net_worth_loop(
                 IF account_type \in CREDIT_ACCOUNT_TYPES
                 THEN nw - balance_value ELSE nw + balance_value,
                 Tail(balances))

calculate_net_worth(balances) == calculate_net_worth_loop(0, balances)

\* _calculate_net_worth(balances), the router's copy
RECURSIVE _calculate_net_worth_loop(_, _)
_calculate_net_worth_loop(nw, balances) ==
    IF balances = <<>> THEN nw
    ELSE LET account_type == parse_account_type(Head(balances)[2])
             latest_balance == Head(balances)[3]
             txn_sum == Head(balances)[4]
             balance_value == IF latest_balance # NULL THEN latest_balance[1] ELSE txn_sum
         IN  _calculate_net_worth_loop(
                 IF account_type \in CREDIT_ACCOUNT_TYPES
                 THEN nw - balance_value ELSE nw + balance_value,
                 Tail(balances))

_calculate_net_worth(balances) == _calculate_net_worth_loop(0, balances)

----
\* The inputs of the model.

\* n blanks
Blanks(n) == [i \in 1..n |-> " "]

\* the whitespace around a label: up to MaxPad blanks, or a tab
Pads == {Blanks(n) : n \in 0..MaxPad} \cup {<<"\t">>}

BaseLabels ==
    { ACCOUNT_TRANSFER_CATEGORY,
      <<"C", "r", "e", "d", "i", "t", " ", "P", "a", "y", "m", "e", "n", "t">>,
      INVESTMENT_CATEGORY,
      <<"i", "n", "v", "e", "s", "t", "m", "e", "n", "t", "s">>,
      <<"r", "r", "s", "p">>,
      <<"I", "n", "v", "e", "s", "t", "m", "e", "n", "t", " ", "F", "u", "n", "d">>,
      <<"R", "e", "i", "n", "v", "e", "s", "t", "m", "e", "n", "t">>,
      <<"R", "e", "n", "t">>,
      EmptyStr }

\* every base label as written, in upper case and in lower case, inside every padding
CategoryInputs ==
    {None} \cup
    { l \o c \o r : l \in Pads, r \in Pads,
                    c \in UNION {{b, upper(b), lower(b)} : b \in BaseLabels} }

\* every member value, some in another letter case, and strings that are no member
AccountTypeInputs ==
    { AccountType[i].value : i \in 1..Len(AccountType) } \cup
    { upper(AccountType[12].value),
      <<"B", "r", "o", "k", "e", "r", "a", "g", "e">>,
      <<" ", "c", "r", "e", "d", "i", "t">>,
      <<"b", "o", "g", "u", "s">>,
      EmptyStr,
      None }

Amounts == (-MaxAmt)..MaxAmt

CallInputs ==
    [amount : Amounts, account_type : AccountTypeInputs, category : CategoryInputs]

----
\* Spec: one call of a helper of category_labels, account_types or transaction_logic.

CallIdle == arg = [amount |-> 0, account_type |-> None, category |-> None] /\ op = "none" /\ ret = <<>>
AggIdle == rows = <<>> /\ response = [kind |-> "none"]
WorthIdle == accounts = <<>> /\ net_worth = [kind |-> "none"]
CategorizerIdle == bundle = <<>> /\ model_file = <<>>
OverrideIdle == overrides_file = [kind |-> "absent"] /\ lock = <<>> /\ threads = <<>> /\ recorded = <<>>
SwapIdle == predicting = <<>> /\ training = <<>>
StoreIdle == stored = <<>>
ServiceIdle == OverrideIdle /\ SwapIdle /\ StoreIdle

Init == arg \in CallInputs /\ op = "none" /\ ret = <<>> /\ AggIdle /\ WorthIdle /\ CategorizerIdle /\ ServiceIdle

Returns(name, value) ==
    /\ op = "none"
    /\ op' = name
    /\ ret' = <<value>>
    /\ UNCHANGED <<arg, aggVars, worthVars, categorizerVars, serviceVars>>

CallCanonicalize == Returns("canonicalize_category", canonicalize_category(arg.category))

\* the caller canonicalizes what canonicalize_category returned
CallCanonicalizeAgain ==
    /\ op = "canonicalize_category"
    /\ op' = "canonicalize_category twice"
    /\ ret' = Append(ret, canonicalize_category(ret[1]))
    /\ UNCHANGED <<arg, aggVars, worthVars, categorizerVars, serviceVars>>

CallParseAccountType == Returns("parse_account_type", parse_account_type(arg.account_type))

CallNormalizeAmount ==
    Returns("normalize_transaction_amount",
            normalize_transaction_amount(arg.amount, arg.account_type, arg.category))

CallClassify ==
    Returns("classify_transaction",
            classify_transaction([amount |-> arg.amount, category |-> arg.category],
                                 arg.account_type))

\* the aggregator over the one row (arg's transaction, arg's account type)
CallAggregate ==
    Returns("aggregate_transactions",
            aggregate_transactions(
                << [txn |-> [amount |-> arg.amount, category |-> arg.category],
                    account_type |-> arg.account_type] >>))

Next ==
    \/ CallCanonicalize
    \/ CallCanonicalizeAgain
    \/ CallParseAccountType
    \/ CallNormalizeAmount
    \/ CallClassify
    \/ CallAggregate

Spec == Init /\ [][Next]_vars

----
\* The vocabulary of the properties.

CreditFamilyValues ==
    { <<"c", "r", "e", "d", "i", "t">>,
      <<"l", "i", "n", "e", "_", "o", "f", "_", "c", "r", "e", "d", "i", "t">>,
      <<"l", "o", "a", "n">> }

CashFamilyValues ==
    { <<"c", "h", "e", "q", "u", "i", "n", "g">>,
      <<"s", "a", "v", "i", "n", "g", "s">>,
      <<"c", "a", "s", "h">> }

InvestmentFamilyValues ==
    { <<"t", "f", "s", "a">>, <<"r", "r", "s", "p">>, <<"r", "s", "p">>, <<"r", "e", "s", "p">>,
      <<"b", "r", "o", "k", "e", "r", "a", "g", "e">>,
      <<"i", "n", "v", "e", "s", "t", "m", "e", "n", "t">>,
      <<"f", "h", "s", "a">> }

\* the account type string as the program compares it: None read as "", in lower case
TypeValue(account_type) == lower(or_else(account_type, EmptyStr))

InCreditFamily(account_type) == TypeValue(account_type) \in CreditFamilyValues
InCashFamily(account_type) == TypeValue(account_type) \in CashFamilyValues
InInvestmentFamily(account_type) == TypeValue(account_type) \in InvestmentFamilyValues
Unrecognized(account_type) ==
    TypeValue(account_type) \notin CreditFamilyValues \cup CashFamilyValues \cup InvestmentFamilyValues

HasTransferCategory(category) == canonicalize_category(category) = ACCOUNT_TRANSFER_CATEGORY
HasInvestmentCategory(category) == canonicalize_category(category) = INVESTMENT_CATEGORY

----
\* C1: on a credit-family account normalize_transaction_amount returns a value >= 0
\* when the canonical category is the transfer category and a value <= 0 when it is
\* not, and in both cases a value of the amount's magnitude.
C1_CreditSignConvention ==
    (op = "normalize_transaction_amount" /\ InCreditFamily(arg.account_type)) =>
        /\ HasTransferCategory(arg.category) => ret[1] >= 0
        /\ ~HasTransferCategory(arg.category) => ret[1] <= 0
        /\ abs(ret[1]) = abs(arg.amount)

\* a negative amount labelled " CREDIT PAYMENT" on a LOAN account was made positive
C1_Witness ==
    /\ op = "normalize_transaction_amount"
    /\ arg.account_type = <<"L", "O", "A", "N">>
    /\ arg.category = <<" ", "C", "R", "E", "D", "I", "T", " ", "P", "A", "Y", "M", "E", "N", "T">>
    /\ arg.amount < 0
    /\ ret[1] = -arg.amount

\* C2: classify_transaction never tags a transaction both income and expense.
C2_IncomeExpenseExclusive ==
    op = "classify_transaction" => ~(ret[1].counts_income /\ ret[1].counts_expense)

\* a positive amount on a credit account was classified, as expense only
C2_Witness ==
    /\ op = "classify_transaction"
    /\ arg.account_type = <<"c", "r", "e", "d", "i", "t">>
    /\ arg.amount > 0
    /\ ret[1].counts_expense
    /\ ~ret[1].counts_income

\* C3: a non-zero transaction with a transfer category is tagged is_transfer and
\* nothing else on every account type, and adds nothing to the totals.
C3_TransferOnly ==
    (arg.amount # 0 /\ HasTransferCategory(arg.category)) =>
        /\ op = "classify_transaction" =>
              /\ ret[1].is_transfer
              /\ ~ret[1].counts_income /\ ~ret[1].counts_expense /\ ~ret[1].counts_invested
        /\ op = "aggregate_transactions" =>
              ret[1].income = 0 /\ ret[1].expenses = 0 /\ ret[1].invested = 0

\* a transfer on a TFSA account was classified as a transfer, not as invested
C3_Witness ==
    /\ op = "classify_transaction"
    /\ arg.account_type = <<"t", "f", "s", "a">>
    /\ arg.category = <<"c", "r", "e", "d", "i", "t", " ", "p", "a", "y", "m", "e", "n", "t">>
    /\ arg.amount < 0
    /\ ret[1].is_transfer

\* C4: a non-zero, non-transfer transaction on an investment-family account, or with
\* a category that canonicalizes to Investment, is tagged invested only, with the
\* absolute value of its amount.
C4_InvestedAbsolute ==
    ( /\ op = "classify_transaction"
      /\ arg.amount # 0
      /\ ~HasTransferCategory(arg.category)
      /\ InInvestmentFamily(arg.account_type) \/ HasInvestmentCategory(arg.category) ) =>
        /\ ret[1].counts_invested
        /\ ~ret[1].counts_income /\ ~ret[1].counts_expense
        /\ ret[1].amount = abs(arg.amount)

\* a negative amount labelled "investment fund" on a credit account counted as invested
C4_Witness ==
    /\ op = "classify_transaction"
    /\ arg.account_type = <<"c", "r", "e", "d", "i", "t">>
    /\ arg.category = <<"i", "n", "v", "e", "s", "t", "m", "e", "n", "t", " ", "f", "u", "n", "d">>
    /\ arg.amount < 0
    /\ ret[1].counts_invested
    /\ ret[1].amount = -arg.amount

\* C5: a non-zero transaction whose category is neither transfer nor investment is,
\* on a cash-family account, income exactly when positive and expense exactly when
\* negative; on a credit-family account always expense; and on an account type that
\* is no member of the enumeration, or is missing, what it is on a chequing account.
C5_FamilyDispatch ==
    ( /\ op = "classify_transaction"
      /\ arg.amount # 0
      /\ ~HasTransferCategory(arg.category)
      /\ ~HasInvestmentCategory(arg.category) ) =>
        /\ InCashFamily(arg.account_type) =>
              /\ ret[1].counts_income <=> arg.amount > 0
              /\ ret[1].counts_expense <=> arg.amount < 0
              /\ ~ret[1].counts_invested /\ ~ret[1].is_transfer
        /\ InCreditFamily(arg.account_type) =>
              /\ ret[1].counts_expense
              /\ ~ret[1].counts_income /\ ~ret[1].counts_invested /\ ~ret[1].is_transfer
        /\ Unrecognized(arg.account_type) =>
              ret[1] = classify_transaction(
                           [amount |-> arg.amount, category |-> arg.category],
                           <<"c", "h", "e", "q", "u", "i", "n", "g">>)

\* a positive amount on the unknown account type " credit" counted as income
C5_Witness ==
    /\ op = "classify_transaction"
    /\ arg.account_type = <<" ", "c", "r", "e", "d", "i", "t">>
    /\ arg.category = <<"R", "e", "n", "t">>
    /\ arg.amount > 0
    /\ ret[1].counts_income

\* C10: canonicalizing what canonicalize_category returned returns it unchanged.
C10_CanonicalizeIdempotent ==
    op = "canonicalize_category twice" => ret[2] = ret[1]

\* "\tRRSP " was canonicalized to Investment, and that was canonicalized again
C10_Witness ==
    /\ op = "canonicalize_category twice"
    /\ arg.category = <<"\t", "R", "R", "S", "P", " ">>
    /\ ret[1] = INVESTMENT_CATEGORY

----
\* AggSpec: the reports over the rows of one reporting period.  The rows are what
\* the handlers' query returns: each transaction of the period with its account's
\* type.  The totals and the breakdown depend on nothing else.

Chequing == <<"c", "h", "e", "q", "u", "i", "n", "g">>
Credit == <<"c", "r", "e", "d", "i", "t">>
Tfsa == <<"t", "f", "s", "a">>
Bogus == <<"b", "o", "g", "u", "s">>
Rent == <<"R", "e", "n", "t">>
CreditPayment == <<"C", "r", "e", "d", "i", "t", " ", "P", "a", "y", "m", "e", "n", "t">>

RowAmounts == {-500, 300, 2000}

\* the (account type, category) pairs of the rows
RowKinds ==
    { <<Chequing, None>>,
      <<Chequing, Rent>>,
      <<Credit, <<" ">> \o Rent>>,
      <<Credit, CreditPayment>>,
      <<Tfsa, None>>,
      <<Bogus, <<" ">>>> }

RowUniverse ==
    { [txn |-> [amount |-> a, category |-> k[2]], account_type |-> k[1]] :
        a \in RowAmounts, k \in RowKinds }

RowSeqs == UNION { [1..n -> RowUniverse] : n \in 0..MaxRows }

AggInit == rows \in RowSeqs /\ response = [kind |-> "none"] /\ CallIdle /\ WorthIdle /\ CategorizerIdle /\ ServiceIdle

Responds(kind, body) ==
    /\ response.kind = "none"
    /\ response' = [kind |-> kind, body |-> body]
    /\ UNCHANGED <<rows, callVars, worthVars, categorizerVars, serviceVars>>

\* GET /transactions/summary: the totals of the response
GetTransactionSummary == Responds("summary", get_transaction_summary_totals(rows))

\* GET /transactions/expenses/by-category
GetExpensesByCategory == Responds("expenses_by_category", get_expenses_by_category(rows))

\* the metrics service over the same rows
AggregateTransactions == Responds("aggregate_transactions", aggregate_transactions(rows))

BuildCategoryBreakdown == Responds("build_category_breakdown", build_category_breakdown(rows))

AggNext ==
    \/ GetTransactionSummary
    \/ GetExpensesByCategory
    \/ AggregateTransactions
    \/ BuildCategoryBreakdown

AggSpec == AggInit /\ [][AggNext]_vars

----
\* WorthSpec: the net worth over the accounts table.  An account is its type, its
\* stored latest balance (NULL when there is none) and the amounts of its
\* transactions; the net worth depends on nothing else.

AccountUniverse ==
    [ type : {Chequing, Credit, Bogus},
      latest_balance : {NULL, <<0>>, <<200>>, <<1000>>},
      amounts : {<<>>, <<700>>, <<700, -300>>} ]

AccountTables == UNION { [1..n -> AccountUniverse] : n \in 0..MaxAccounts }

WorthInit == accounts \in AccountTables /\ net_worth = [kind |-> "none"] /\ CallIdle /\ AggIdle /\ CategorizerIdle /\ ServiceIdle

Computes(kind, value) ==
    /\ net_worth.kind = "none"
    /\ net_worth' = [kind |-> kind, value |-> value]
    /\ UNCHANGED <<accounts, callVars, aggVars, categorizerVars, serviceVars>>

\* GET /transactions/summary: the net_worth of the response
GetSummaryNetWorth == Computes("summary", _calculate_net_worth(balances_query(accounts)))

\* the metrics service over the same balances
CalculateNetWorth == Computes("calculate_net_worth", calculate_net_worth(balances_query(accounts)))

WorthNext ==
    \/ GetSummaryNetWorth
    \/ CalculateNetWorth

WorthSpec == WorthInit /\ [][WorthNext]_vars

----
\* The vocabulary of the properties over rows and accounts.

IsExpenseRow(row) == classify_transaction(row.txn, row.account_type).counts_expense

\* the label a transaction is reported under
GroupLabel(category) ==
    IF category = None \/ strip(category) = EmptyStr THEN UNCATEGORIZED
    ELSE canonicalize_category(category)

\* the sum of f over the indices in S
RECURSIVE SumOver(_, _)
SumOver(S, f) ==
    IF S = {} THEN 0
    ELSE LET i == CHOOSE j \in S : TRUE IN f[i] + SumOver(S \ {i}, f)

\* the expenses of rs under label g (of every label when g is None), each expense
\* taken as a non-positive value
ExpensesOf(rs, g) ==
    SumOver({i \in 1..Len(rs) :
                IsExpenseRow(rs[i]) /\ (g = None \/ GroupLabel(rs[i].txn.category) = g)},
            [i \in 1..Len(rs) |-> -abs(rs[i].txn.amount)])

\* rs holds a positive amount on a credit-family account that is tagged expense
HasPositiveCreditExpense(rs) ==
    \E i \in 1..Len(rs) :
        /\ InCreditFamily(rs[i].account_type)
        /\ rs[i].txn.amount > 0
        /\ IsExpenseRow(rs[i])

\* rs is, in some order, a cash income of 2000, a cash expense of -500 and a
\* transaction of 300 on an investment account
IsSummaryExample(rs) ==
    /\ Len(rs) = 3
    /\ \E i, j, k \in 1..3 :
        /\ {i, j, k} = 1..3
        /\ rs[i].txn.amount = 2000 /\ InCashFamily(rs[i].account_type)
        /\ ~HasTransferCategory(rs[i].txn.category) /\ ~HasInvestmentCategory(rs[i].txn.category)
        /\ rs[j].txn.amount = -500 /\ InCashFamily(rs[j].account_type)
        /\ ~HasTransferCategory(rs[j].txn.category) /\ ~HasInvestmentCategory(rs[j].txn.category)
        /\ rs[k].txn.amount = 300 /\ InInvestmentFamily(rs[k].account_type)
        /\ ~HasTransferCategory(rs[k].txn.category)

\* the value the net worth is defined to have
ExpectedNetWorth(accts) ==
    SumOver(1..Len(accts),
            [i \in 1..Len(accts) |->
                LET value == IF accts[i].latest_balance # NULL
                             THEN accts[i].latest_balance[1]
                             ELSE sum_amounts(accts[i].amounts)
                IN  IF InCreditFamily(accts[i].type) THEN -value ELSE value])

----
\* C6: the totals of any rows satisfy total_income >= 0, total_expenses <= 0 and
\* total_invested >= 0, in the router and in the metrics service; every expense,
\* also a positive amount on a credit-family account, is added as a negative value.
C6_TotalsSigns ==
    /\ response.kind = "summary" =>
          /\ response.body.total_income >= 0
          /\ response.body.total_expenses <= 0
          /\ response.body.total_invested >= 0
          /\ response.body.total_expenses = ExpensesOf(rows, None)
    /\ response.kind = "aggregate_transactions" =>
          /\ response.body.income >= 0
          /\ response.body.expenses <= 0
          /\ response.body.invested >= 0
          /\ response.body.expenses = ExpensesOf(rows, None)

\* the totals of rows that hold a positive amount on a credit account, tagged expense
C6_Witness ==
    /\ response.kind = "aggregate_transactions"
    /\ HasPositiveCreditExpense(rows)
    /\ Len(rows) = 1
    /\ response.body.expenses = -rows[1].txn.amount

\* C7: net_flow = total_income + total_expenses - total_invested; savings_rate is
\* net_flow / total_income when total_income > 0 and 0 otherwise; a cash income of
\* 2000, a cash expense of -500 and 300 on an investment account give 2000, -500,
\* 300, net_flow 1200 and savings_rate 0.6.
C7_NetFlowAndSavingsRate ==
    response.kind = "summary" =>
        LET r == response.body
        IN  /\ r.net_flow = r.total_income + r.total_expenses - r.total_invested
            /\ r.total_income > 0 => r.savings_rate = Quotient(r.net_flow, r.total_income)
            /\ r.total_income <= 0 => r.savings_rate = Zero
            /\ r.savings_rate.den # 0
            /\ IsSummaryExample(rows) =>
                  /\ r.total_income = 2000
                  /\ r.total_expenses = -500
                  /\ r.total_invested = 300
                  /\ r.net_flow = 1200
                  /\ 10 * r.savings_rate.num = 6 * r.savings_rate.den

\* the summary of the example rows
C7_Witness ==
    /\ response.kind = "summary"
    /\ IsSummaryExample(rows)
    /\ response.body.net_flow = 1200
    /\ response.body.savings_rate = Quotient(1200, 2000)

\* C8: the net worth is the sum over the accounts of the stored latest balance when
\* there is one (also a balance of 0) and of the sum of the account's transaction
\* amounts otherwise, subtracted for a credit-family account and added for every
\* other; a cash balance of 1000 and a credit balance of 200 give 800.
C8_NetWorth ==
    net_worth.kind # "none" =>
        /\ net_worth.value = ExpectedNetWorth(accounts)
        /\ ( /\ Len(accounts) = 2
             /\ InCashFamily(accounts[1].type) /\ accounts[1].latest_balance = <<1000>>
             /\ InCreditFamily(accounts[2].type) /\ accounts[2].latest_balance = <<200>> )
           => net_worth.value = 800

\* the net worth of a chequing account with balance 1000 and a credit account with
\* balance 200, both with transactions that do not count
C8_Witness ==
    /\ net_worth.kind = "summary"
    /\ Len(accounts) = 2
    /\ accounts[1] = [type |-> Chequing, latest_balance |-> <<1000>>, amounts |-> <<700>>]
    /\ accounts[2] = [type |-> Credit, latest_balance |-> <<200>>, amounts |-> <<700, -300>>]
    /\ net_worth.value = 800

\* C9: the category breakdown holds exactly one entry per label that has an expense
\* (no or a blank category counts under Uncategorized, every other under its
\* canonical label), each with the sum of that label's expenses as non-positive
\* values, and the entries are in ascending order of their totals.
C9_CategoryBreakdown ==
    response.kind \in {"expenses_by_category", "build_category_breakdown"} =>
        LET b == response.body
        IN  /\ \A i, j \in 1..Len(b) : b[i].category = b[j].category => i = j
            /\ {b[i].category : i \in 1..Len(b)} =
                   {GroupLabel(rows[i].txn.category) : i \in {k \in 1..Len(rows) : IsExpenseRow(rows[k])}}
            /\ \A i \in 1..Len(b) : b[i].total_amount = ExpensesOf(rows, b[i].category)
            /\ \A i, j \in 1..Len(b) : i < j => b[i].total_amount <= b[j].total_amount

\* a breakdown of two labels: Rent, with the expenses labelled "Rent" and " Rent", before
\* Uncategorized, while an income row adds nothing
C9_Witness ==
    /\ response.kind = "expenses_by_category"
    /\ Len(rows) = 3
    /\ rows[1] = [txn |-> [amount |-> -500, category |-> None], account_type |-> Chequing]
    /\ rows[2] = [txn |-> [amount |-> -500, category |-> Rent], account_type |-> Chequing]
    /\ rows[3] = [txn |-> [amount |-> 300, category |-> <<" ">> \o Rent], account_type |-> Credit]
    /\ response.body = << [category |-> Rent, total_amount |-> -800],
                          [category |-> UNCATEGORIZED, total_amount |-> -500] >>

----
\* Bounds of the text inputs.

\* a description is put together from at most MaxPieces pieces
MaxPieces == 5

----
\* Python str and re operations on text.

Digits == {"0", "1", "2", "3", "4", "5", "6", "7", "8", "9"}

\* str.replace(old, new) for a one-character old
replace_char(s, old, new) ==
    [i \in 1..Len(s) |-> IF s[i] = old THEN new ELSE s[i]]

\* the length of the longest prefix of s made of characters of class
RECURSIVE run_length(_, _)
run_length(s, class) ==
    IF s # <<>> /\ Head(s) \in class THEN 1 + run_length(Tail(s), class) ELSE 0

\* re.compile(class{least,}).sub(" ", s): every maximal run of at least `least`
\* characters of class is replaced by one space, left to right
RECURSIVE sub_runs(_, _, _)
sub_runs(s, class, least) ==
    IF s = <<>> THEN <<>>
    ELSE LET n == run_length(s, class)
         IN  IF n >= least
             THEN <<" ">> \o sub_runs(SubSeq(s, n + 1, Len(s)), class, least)
             ELSE IF n = 0
                  THEN <<Head(s)>> \o sub_runs(Tail(s), class, least)
                  ELSE SubSeq(s, 1, n) \o sub_runs(SubSeq(s, n + 1, Len(s)), class, least)

\* str.split(sep) for a one-character sep: the pieces between the separators,
\* the empty ones included
RECURSIVE split(_, _)
split(s, sep) ==
    LET n == run_length(s, {c \in {s[i] : i \in 1..Len(s)} : c # sep})
    IN  IF n = Len(s) THEN <<s>>
        ELSE <<SubSeq(s, 1, n)>> \o split(SubSeq(s, n + 2, Len(s)), sep)

\* sep.join(tokens)
RECURSIVE join(_, _)
join(sep, tokens) ==
    IF tokens = <<>> THEN <<>>
    ELSE IF Len(tokens) = 1 THEN tokens[1]
    ELSE tokens[1] \o sep \o join(sep, Tail(tokens))

\* [tok for tok in tokens if tok and tok not in stopwords]
RECURSIVE keep_tokens(_, _)
keep_tokens(tokens, stopwords) ==
    IF tokens = <<>> THEN <<>>
    ELSE IF Head(tokens) # <<>> /\ Head(tokens) \notin stopwords
         THEN <<Head(tokens)>> \o keep_tokens(Tail(tokens), stopwords)
         ELSE keep_tokens(Tail(tokens), stopwords)

----
\* src/app/text_utils.py

STOPWORDS ==
    { <<"p", "o", "s">>, <<"v", "i", "s", "a">>, <<"d", "e", "b", "i", "t">>, <<"c", "r", "e", "d", "i", "t">>, <<"p", "u", "r", "c", "h", "a", "s", "e">>, <<"a", "u", "t", "h">>, <<"c", "a", "r", "d">>,
      <<"t", "r", "a", "n", "s", "a", "c", "t", "i", "o", "n">>, <<"w", "i", "t", "h", "d", "r", "a", "w", "a", "l">>, <<"d", "e", "p", "o", "s", "i", "t">>, <<"o", "n", "l", "i", "n", "e">>, <<"t", "r", "a", "n", "s", "f", "e", "r">> }

\* NOISE_PATTERNS: \d{2,} and \s+, each as [class, least]
NOISE_PATTERNS ==
    << [class |-> Digits, least |-> 2], [class |-> Whitespace, least |-> 1] >>

\* the loop `for pattern in patterns: lowered = pattern.sub(" ", lowered)`
RECURSIVE sub_patterns(_, _)
sub_patterns(lowered, patterns) ==
    IF patterns = <<>> THEN lowered
    ELSE sub_patterns(sub_runs(lowered, Head(patterns).class, Head(patterns).least),
                      Tail(patterns))

\* the stopwords are filtered out of the text as given and the result is lowered
\* afterwards
normalize_description_lowered_last(text) ==
    LET given == replace_char(replace_char(or_else(text, EmptyStr), ";", " "), ",", " ")
        cleaned == sub_patterns(given, NOISE_PATTERNS)
        tokens == keep_tokens(split(cleaned, " "), STOPWORDS)
    IN  lower(strip(join(<<" ">>, tokens)))

normalize_description(text) ==
    LET lowered == lower(or_else(text, EmptyStr))
        replaced == replace_char(replace_char(lowered, ";", " "), ",", " ")
        cleaned == sub_patterns(replaced, NOISE_PATTERNS)
        tokens == keep_tokens(split(cleaned, " "), STOPWORDS)
    IN  strip(join(<<" ">>, tokens))

----
\* src/app/categorization.py: the normalizer of SmartCategorizer

categorization_STOPWORDS ==
    { <<"p", "o", "s">>, <<"v", "i", "s", "a">>, <<"d", "e", "b", "i", "t">>, <<"c", "r", "e", "d", "i", "t">>, <<"p", "u", "r", "c", "h", "a", "s", "e">>, <<"a", "u", "t", "h">>, <<"c", "a", "r", "d">>,
      <<"t", "r", "a", "n", "s", "a", "c", "t", "i", "o", "n">>, <<"w", "i", "t", "h", "d", "r", "a", "w", "a", "l">>, <<"d", "e", "p", "o", "s", "i", "t">>, <<"o", "n", "l", "i", "n", "e">>, <<"t", "r", "a", "n", "s", "f", "e", "r">> }

categorization_NOISE_PATTERNS ==
    << [class |-> Digits, least |-> 2], [class |-> Whitespace, least |-> 1] >>

\* with the stopword "pos" missing from the set of the categorizer
_normalize_text_keeps_pos(text) ==
    LET lowered == lower(or_else(text, EmptyStr))
        replaced == replace_char(replace_char(lowered, ";", " "), ",", " ")
        cleaned == sub_patterns(replaced, categorization_NOISE_PATTERNS)
        tokens == keep_tokens(split(cleaned, " "), categorization_STOPWORDS \ {<<"p", "o", "s">>})
    IN  strip(join(<<" ">>, tokens))

_normalize_text(text) ==
    LET lowered == lower(or_else(text, EmptyStr))
        replaced == replace_char(replace_char(lowered, ";", " "), ",", " ")
        cleaned == sub_patterns(replaced, categorization_NOISE_PATTERNS)
        tokens == keep_tokens(split(cleaned, " "), categorization_STOPWORDS)
    IN  strip(join(<<" ">>, tokens))

----
\* One call of a text function on a description (TextSpec); arg is the description.

\* the pieces a description is put together from: a stopword in mixed case, a
\* letter, a digit, the two separators, a blank and a tab
Pieces == { <<"P", "o", "s">>, <<"a">>, <<"1">>, <<";">>, <<",">>, <<" ">>, <<"\t">> }

\* the concatenations of at most n pieces
RECURSIVE Concats(_)
Concats(n) ==
    IF n = 0 THEN {<<>>}
    ELSE LET shorter == Concats(n - 1)
         IN  shorter \cup {p \o t : p \in Pieces, t \in shorter}

Descriptions == {None} \cup Concats(MaxPieces)

TextInit == arg \in Descriptions /\ op = "none" /\ ret = <<>> /\ AggIdle /\ WorthIdle /\ CategorizerIdle /\ ServiceIdle

\* a second call, on what the first call returned
ReturnsAgain(name, again, value) ==
    /\ op = name
    /\ op' = again
    /\ ret' = Append(ret, value)
    /\ UNCHANGED <<arg, aggVars, worthVars, categorizerVars, serviceVars>>

CallNormalizeDescription ==
    Returns("normalize_description", normalize_description(arg))

CallNormalizeDescriptionAgain ==
    ReturnsAgain("normalize_description", "normalize_description twice",
                 normalize_description(ret[1]))

CallNormalizeText == Returns("_normalize_text", _normalize_text(arg))

CallNormalizeTextAgain ==
    ReturnsAgain("_normalize_text", "_normalize_text twice", _normalize_text(ret[1]))

TextNext ==
    \/ CallNormalizeDescription
    \/ CallNormalizeDescriptionAgain
    \/ CallNormalizeText
    \/ CallNormalizeTextAgain

TextSpec == TextInit /\ [][TextNext]_vars

----
\* what a second pass of the normalizer would remove from s

HasDigitRun(s) == \E i \in 1..(Len(s) - 1) : s[i] \in Digits /\ s[i + 1] \in Digits

HasStopwordToken(s) ==
    \E i \in 1..Len(s) : \E j \in i..Len(s) :
        /\ SubSeq(s, i, j) \in STOPWORDS
        /\ i = 1 \/ s[i - 1] = " "
        /\ j = Len(s) \/ s[j + 1] = " "

HasExtraWhitespace(s) ==
    \/ \E i \in 1..Len(s) : s[i] \in Whitespace \ {" "}
    \/ \E i \in 1..(Len(s) - 1) : s[i] = " " /\ s[i + 1] = " "
    \/ s # <<>> /\ (s[1] = " " \/ s[Len(s)] = " ")

HasSeparator(s) == \E i \in 1..Len(s) : s[i] \in {";", ","}

\* C11: normalizing a description twice gives what normalizing it once gives, for
\* normalize_description and for SmartCategorizer._normalize_text; the normalized
\* string holds no run of two or more digits, no stopword token, no separator and
\* no whitespace but single blanks between tokens.
C11_NormalizeStable ==
    /\ op \in {"normalize_description", "_normalize_text"} =>
          /\ ~HasDigitRun(ret[1])
          /\ ~HasStopwordToken(ret[1])
          /\ ~HasExtraWhitespace(ret[1])
          /\ ~HasSeparator(ret[1])
    /\ op \in {"normalize_description twice", "_normalize_text twice"} =>
          ret[2] = ret[1]

\* "1 Pos;1" lost its stopword and its separator: the two digits it leaves stay
\* apart, and the second pass returned "1 1" again
C11_Witness ==
    /\ op = "normalize_description twice"
    /\ arg = <<"1", " ", "P", "o", "s", ";", "1">>
    /\ ret = << <<"1", " ", "1">>, <<"1", " ", "1">> >>

----
\* Python float() and the values it returns.

\* U+2212 MINUS SIGN, one character of a text
MINUS_SIGN == "U+2212"

DigitValue == [c \in Digits |-> CHOOSE n \in 0..9 : <<"0", "1", "2", "3", "4", "5", "6", "7", "8", "9">>[n + 1] = c]

IsDigits(s) == s # <<>> /\ \A i \in 1..Len(s) : s[i] \in Digits

\* int() of a string of digits
RECURSIVE digits_value(_)
digits_value(s) ==
    IF s = <<>> THEN 0 ELSE 10 * digits_value(SubSeq(s, 1, Len(s) - 1)) + DigitValue[s[Len(s)]]

RECURSIVE power_of_ten(_)
power_of_ten(k) == IF k = 0 THEN 1 ELSE 10 * power_of_ten(k - 1)

\* s without its trailing zeros
RECURSIVE rstrip_zeros(_)
rstrip_zeros(s) ==
    IF s # <<>> /\ s[Len(s)] = "0" THEN rstrip_zeros(SubSeq(s, 1, Len(s) - 1)) ELSE s

\* a float that a decimal numeral denotes, kept exact: num / den with den the least
\* power of ten (-0.0 is not told from 0.0)
Float(num, den) == [num |-> num, den |-> den]

\* -x
float_neg(x) == Float(-x.num, x.den)

\* the float of the numeral whole.fraction
decimal(whole, fraction) ==
    LET f == rstrip_zeros(fraction)
    IN  Float(digits_value(whole) * power_of_ten(Len(f)) + digits_value(f),
              power_of_ten(Len(f)))

\* float() of an unsigned numeral: digits, digits., digits.digits or .digits;
\* <<>> stands for ValueError
unsigned_float(s) ==
    LET n == run_length(s, Digits)
        whole == SubSeq(s, 1, n)
        rest == SubSeq(s, n + 1, Len(s))
    IN  IF rest = <<>>
        THEN IF n > 0 THEN <<decimal(whole, <<>>)>> ELSE <<>>
        ELSE IF Head(rest) = "." /\ (Tail(rest) = <<>> \/ IsDigits(Tail(rest)))
                /\ (n > 0 \/ Tail(rest) # <<>>)
             THEN <<decimal(whole, Tail(rest))>>
             ELSE <<>>

\* float(text): surrounding whitespace is ignored, one sign may lead; <<>> stands
\* for ValueError.  (Exponents, underscores, inf and nan are spelled with
\* characters the texts of this model do not hold.)
float(text) ==
    LET t == strip(text)
    IN  IF t = <<>> THEN <<>>
        ELSE IF Head(t) = "-"
             THEN LET u == unsigned_float(Tail(t))
                  IN  IF u = <<>> THEN <<>> ELSE <<float_neg(u[1])>>
        ELSE IF Head(t) = "+" THEN unsigned_float(Tail(t))
        ELSE unsigned_float(t)

----
\* src/app/services/pdf_ingestion.py: amounts

\* a Python value of one of the types _clean_amount is given
NoneValue == [type |-> "NoneType"]
Str(text) == [type |-> "str", value |-> text]
Number(x) == [type |-> "float", number |-> x]

\* str.endswith(suffix)
endswith(s, suffix) ==
    Len(s) >= Len(suffix) /\ SubSeq(s, Len(s) - Len(suffix) + 1, Len(s)) = suffix

\* str.replace(old, "") for a one-character old
RECURSIVE remove_char(_, _)
remove_char(s, old) ==
    IF s = <<>> THEN <<>>
    ELSE IF Head(s) = old THEN remove_char(Tail(s), old)
    ELSE <<Head(s)>> \o remove_char(Tail(s), old)

\* _clean_amount: NULL for None, <<x>> for the float x
_clean_amount(value) ==
    IF value.type = "NoneType" THEN NULL
    ELSE IF value.type = "float" THEN <<value.number>>
    ELSE LET stripped == strip(value.value)
             negative == startswith(stripped, <<"(">>) /\ endswith(stripped, <<")">>)
             inner == IF negative THEN SubSeq(stripped, 2, Len(stripped) - 1) ELSE stripped
             text == replace_char(
                         remove_char(remove_char(remove_char(inner, "$"), ","), " "),
                         MINUS_SIGN, "-")
             number == float(text)
         IN  IF stripped = <<>> THEN NULL
             ELSE IF text = <<>> THEN NULL
             ELSE IF number = <<>> THEN NULL
             ELSE IF negative \/ number[1].num < 0 THEN <<float_neg(number[1])>>
             ELSE number

----
\* One call of _clean_amount (AmountSpec); arg is the value it is given.

\* an amount text holds at most MaxChars characters
MaxChars == 4

\* the strings of at most n characters of alphabet
RECURSIVE Strings(_, _)
Strings(alphabet, n) ==
    IF n = 0 THEN {<<>>}
    ELSE LET shorter == Strings(alphabet, n - 1)
         IN  shorter \cup {<<c>> \o t : c \in alphabet, t \in shorter}

AmountChars == {"(", ")", "-", MINUS_SIGN, "$", ",", " ", ".", "0", "5", "x"}

AmountExamples == { <<"(", "$", "1", ",", "2", "3", "4", ".", "5", "6", ")">>, <<"1", ",", "2", "3", "4", ".", "5", "6">>, <<" ", "-", "$", "5", "0", ".", "0", "0", " ">> }

AmountInputs ==
    {NoneValue, Number(Float(-5, 1)), Number(Float(5, 1))}
        \cup {Str(t) : t \in Strings(AmountChars, MaxChars) \cup AmountExamples}

AmountInit == arg \in AmountInputs /\ op = "none" /\ ret = <<>> /\ AggIdle /\ WorthIdle /\ CategorizerIdle /\ ServiceIdle

CallCleanAmount == Returns("_clean_amount", _clean_amount(arg))

AmountNext == CallCleanAmount

AmountSpec == AmountInit /\ [][AmountNext]_vars

----
\* how an amount text reads: its markers and its magnitude

\* the text is wrapped in parentheses
Parenthesized(s) == startswith(strip(s), <<"(">>) /\ endswith(strip(s), <<")">>)

\* the text without the parentheses around it, currency signs, thousands separators
\* and blanks
PlainAmount(s) ==
    LET t == strip(s)
        inner == IF Parenthesized(s) THEN SubSeq(t, 2, Len(t) - 1) ELSE t
    IN  remove_char(remove_char(remove_char(inner, "$"), ","), " ")

\* a leading ASCII minus or Unicode minus sign
HasLeadingMinus(s) == PlainAmount(s) # <<>> /\ Head(PlainAmount(s)) \in {"-", MINUS_SIGN}

HasNegativeMarker(s) == Parenthesized(s) \/ HasLeadingMinus(s)

\* the magnitude the text spells, <<>> when what the markers leave is no numeral
Magnitude(s) ==
    unsigned_float(IF HasLeadingMinus(s) THEN Tail(PlainAmount(s)) ELSE PlainAmount(s))

HasNonZeroMagnitude(s) == Magnitude(s) # <<>> /\ Magnitude(s)[1].num # 0

NonNumeric(s) == \A i \in 1..Len(s) : s[i] \notin Digits

\* C12: on a string with a non-zero numeric magnitude _clean_amount returns minus
\* the magnitude when the text carries a negative marker (parentheses around it, a
\* leading minus, a Unicode minus sign, or two of them) and the magnitude when it
\* carries none; on an empty or non-numeric string it returns None.
C12_SignFromMarkers ==
    (op = "_clean_amount" /\ arg.type = "str") =>
        /\ HasNonZeroMagnitude(arg.value) =>
              ret[1] = << IF HasNegativeMarker(arg.value)
                          THEN float_neg(Magnitude(arg.value)[1])
                          ELSE Magnitude(arg.value)[1] >>
        /\ NonNumeric(arg.value) => ret[1] = NULL

----
\* datetime.date

Date(year, month, day) == [year |-> year, month |-> month, day |-> day]

IsLeapYear(y) == y % 4 = 0 /\ (y % 100 # 0 \/ y % 400 = 0)

DaysInMonth(y, m) ==
    IF m = 2 THEN (IF IsLeapYear(y) THEN 29 ELSE 28)
    ELSE IF m \in {4, 6, 9, 11} THEN 30 ELSE 31

\* the triples datetime.date accepts; it raises ValueError on the others
IsValidDate(y, m, d) ==
    /\ y \in 1..9999
    /\ m \in 1..12
    /\ d >= 1 /\ d <= DaysInMonth(y, m)

\* how a call ends: it returns a value or raises an exception
Return(value) == [kind |-> "return", value |-> value]
Raise(exception) == [kind |-> "raise", exception |-> exception]

\* date_cls(y, m, d) and date.replace(year=y)
date_cls(y, m, d) ==
    IF IsValidDate(y, m, d) THEN Return(<<Date(y, m, d)>>) ELSE Raise("ValueError")

----
\* pandas.to_datetime(candidate, errors="coerce") on one string, as far as the
\* date tokens of a statement go: a month name followed by a day, a year or both,
\* or month/day/year in digits.  NaT for every other string.

NaT == <<>>

Letters == {UpperChars[i] : i \in 1..Len(UpperChars)} \cup {LowerChars[i] : i \in 1..Len(LowerChars)}

\* the month names the library reads, in upper case: the abbreviations, Sept and
\* the full names
MonthNames ==
    [name \in { <<"J", "A", "N">>, <<"F", "E", "B">>, <<"M", "A", "R">>, <<"A", "P", "R">>, <<"M", "A", "Y">>, <<"J", "U", "N">>, <<"J", "U", "L">>, <<"A", "U", "G">>,
                 <<"S", "E", "P">>, <<"S", "E", "P", "T">>, <<"O", "C", "T">>, <<"N", "O", "V">>, <<"D", "E", "C">>,
                 <<"J", "A", "N", "U", "A", "R", "Y">>, <<"F", "E", "B", "R", "U", "A", "R", "Y">>, <<"M", "A", "R", "C", "H">>, <<"A", "P", "R", "I", "L">>, <<"J", "U", "N", "E">>, <<"J", "U", "L", "Y">>,
                 <<"A", "U", "G", "U", "S", "T">>, <<"S", "E", "P", "T", "E", "M", "B", "E", "R">>, <<"O", "C", "T", "O", "B", "E", "R">>, <<"N", "O", "V", "E", "M", "B", "E", "R">>, <<"D", "E", "C", "E", "M", "B", "E", "R">> } |->
        LET abbreviation == SubSeq(name, 1, 3)
        IN  CASE abbreviation = <<"J", "A", "N">> -> 1 [] abbreviation = <<"F", "E", "B">> -> 2
              [] abbreviation = <<"M", "A", "R">> -> 3 [] abbreviation = <<"A", "P", "R">> -> 4
              [] abbreviation = <<"M", "A", "Y">> -> 5 [] abbreviation = <<"J", "U", "N">> -> 6
              [] abbreviation = <<"J", "U", "L">> -> 7 [] abbreviation = <<"A", "U", "G">> -> 8
              [] abbreviation = <<"S", "E", "P">> -> 9 [] abbreviation = <<"O", "C", "T">> -> 10
              [] abbreviation = <<"N", "O", "V">> -> 11 [] abbreviation = <<"D", "E", "C">> -> 12]

\* the years a nanosecond Timestamp holds whole
TimestampYears == 1678..2261

\* a two-digit year is read as strptime's %y reads it
pivot_year(y, digits) == IF digits > 2 THEN y ELSE IF y < 69 THEN 2000 + y ELSE 1900 + y

timestamp(y, m, d) ==
    IF y \in TimestampYears /\ IsValidDate(y, m, d) THEN <<Date(y, m, d)>> ELSE NaT

\* the runs of letters and of digits of s, in order, blanks between them dropped;
\* <<>> followed by the rest when another character is met
RECURSIVE lex(_)
lex(s) ==
    IF s = <<>> THEN <<>>
    ELSE IF Head(s) = " " THEN lex(Tail(s))
    ELSE LET n == IF Head(s) \in Letters THEN run_length(s, Letters)
                  ELSE IF Head(s) \in Digits THEN run_length(s, Digits)
                  ELSE 1
         IN  <<SubSeq(s, 1, n)>> \o lex(SubSeq(s, n + 1, Len(s)))

\* default_year is the year the installed library gives a date string that names
\* none (NULL when such a string comes out as NaT)
to_datetime(candidate, default_year) ==
    LET words == lex(candidate)
        named == Len(words) \in 2..3 /\ upper(words[1]) \in DOMAIN MonthNames
                 /\ \A i \in 2..Len(words) : IsDigits(words[i])
        slashed == Len(words) = 5 /\ words[2] = <<"/">> /\ words[4] = <<"/">>
                   /\ \A i \in {1, 3, 5} : IsDigits(words[i])
    IN  IF named
        THEN LET month == MonthNames[upper(words[1])]
                 first == digits_value(words[2])
             IN  IF Len(words) = 3
                 THEN timestamp(pivot_year(digits_value(words[3]), Len(words[3])), month, first)
                 ELSE IF Len(words[2]) <= 2 /\ first <= 31
                 THEN IF default_year = NULL THEN NaT
                      ELSE timestamp(default_year[1], month, first)
                 ELSE IF Len(words[2]) <= 4 THEN timestamp(first, month, 1)
                 ELSE NaT
        ELSE IF slashed
        THEN timestamp(pivot_year(digits_value(words[5]), Len(words[5])),
                       digits_value(words[1]), digits_value(words[3]))
        ELSE NaT

----
\* src/app/services/pdf_ingestion.py: date tokens

MONTH_MAP ==
    [name \in { <<"J", "A", "N">>, <<"F", "E", "B">>, <<"M", "A", "R">>, <<"A", "P", "R">>, <<"M", "A", "Y">>, <<"J", "U", "N">>, <<"J", "U", "L">>, <<"A", "U", "G">>,
                 <<"S", "E", "P">>, <<"S", "E", "P", "T">>, <<"O", "C", "T">>, <<"N", "O", "V">>, <<"D", "E", "C">> } |->
        CASE name = <<"J", "A", "N">> -> 1 [] name = <<"F", "E", "B">> -> 2 [] name = <<"M", "A", "R">> -> 3
          [] name = <<"A", "P", "R">> -> 4 [] name = <<"M", "A", "Y">> -> 5 [] name = <<"J", "U", "N">> -> 6
          [] name = <<"J", "U", "L">> -> 7 [] name = <<"A", "U", "G">> -> 8 [] name = <<"S", "E", "P">> -> 9
          [] name = <<"S", "E", "P", "T">> -> 9 [] name = <<"O", "C", "T">> -> 10 [] name = <<"N", "O", "V">> -> 11
          [] name = <<"D", "E", "C">> -> 12]

\* (JAN|FEB|MAR|APR|MAY|JUN|JUL|AUG|SEP|SEPT|OCT|NOV|DEC)
MonthAlternatives == DOMAIN MONTH_MAP

\* re.sub(r"[^A-Za-z0-9/ ]", "", token)
RECURSIVE keep_chars(_, _)
keep_chars(s, class) ==
    IF s = <<>> THEN <<>>
    ELSE IF Head(s) \in class THEN <<Head(s)>> \o keep_chars(Tail(s), class)
    ELSE keep_chars(Tail(s), class)

\* re.search(class{least,most}, s) after an optional lead character: some run of
\* at least `least` characters of class starts in s (right after `lead`, if given)
has_run(s, lead, class, least) ==
    \E i \in 1..Len(s) :
        /\ lead = <<>> \/ s[i] = lead[1]
        /\ run_length(SubSeq(s, IF lead = <<>> THEN i ELSE i + 1, Len(s)), class) >= least

\* ^(JAN|...|DEC)\s*\d{1,2}$ matched against s: <<name, day digits>> or <<>>
month_day_match(s) ==
    LET hits == { name \in MonthAlternatives :
                    /\ startswith(s, name)
                    /\ LET rest == lstrip(SubSeq(s, Len(name) + 1, Len(s)))
                       IN  IsDigits(rest) /\ Len(rest) <= 2 }
    IN  IF hits = {} THEN <<>>
        ELSE LET name == CHOOSE n \in hits : TRUE
             IN  <<name, lstrip(SubSeq(s, Len(name) + 1, Len(s)))>>

\* str.partition("/"): <<before, after>> of the first slash
partition_slash(s) ==
    LET n == run_length(s, {c \in {s[i] : i \in 1..Len(s)} : c # "/"})
    IN  <<SubSeq(s, 1, n), SubSeq(s, n + 2, Len(s))>>

\* str(year_val)
RECURSIVE str_of_nat(_)
str_of_nat(n) ==
    LET last == <<"0", "1", "2", "3", "4", "5", "6", "7", "8", "9">>[(n % 10) + 1]
    IN  IF n < 10 THEN <<last>> ELSE str_of_nat(n \div 10) \o <<last>>

\* the loop over the candidates: the first one that to_datetime parses wins
RECURSIVE first_parsed(_, _)
first_parsed(candidates, default_year) ==
    IF candidates = <<>> THEN NaT
    ELSE LET parsed == to_datetime(Head(candidates), default_year)
         IN  IF parsed # NaT THEN parsed ELSE first_parsed(Tail(candidates), default_year)

\* _parse_pdf_date_token: Return(NULL) for None, Return(<<date>>) for a date,
\* Raise("ValueError") when int(), date.replace() or date() raises
_parse_pdf_date_token(token_in, fallback_year, default_year) ==
    LET token == strip(or_else(token_in, EmptyStr))
        normalized == upper(keep_chars(token, Letters \cup Digits \cup {"/", " "}))
        compact == remove_char(normalized, " ")
        explicit_year == has_run(normalized, <<"/">>, Digits, 2) \/ has_run(normalized, <<>>, Digits, 4)
        c1 == IF compact # <<>> THEN <<compact>> ELSE <<>>
        c2 == IF \E i \in 1..Len(normalized) : normalized[i] = " " THEN <<normalized>> ELSE <<>>
        c3 == <<token>>
        compact_match == month_day_match(compact)
        c4 == IF compact_match # <<>>
              THEN <<SubSeq(compact, 1, 3) \o <<" ">> \o SubSeq(compact, 4, Len(compact))>>
              ELSE <<>>
        has_slash == \E i \in 1..Len(normalized) : normalized[i] = "/"
        month_day == partition_slash(normalized)[1]
        year_part == partition_slash(normalized)[2]
        splits == has_slash /\ month_day # <<>> /\ year_part # <<>>
        year_val == digits_value(strip(year_part))
        c5 == IF splits
              THEN <<month_day \o <<" ">> \o str_of_nat(IF year_val < 100 THEN year_val + 2000 ELSE year_val)>>
              ELSE <<>>
        parsed == first_parsed(c1 \o c2 \o c3 \o c4 \o c5, default_year)
    IN  IF token = <<>> THEN Return(NULL)
        ELSE IF splits /\ ~IsDigits(strip(year_part)) THEN Raise("ValueError")
        ELSE IF parsed # NaT
        THEN IF fallback_year # NULL /\ ~explicit_year
             THEN date_cls(fallback_year[1], parsed[1].month, parsed[1].day)
             ELSE Return(parsed)
        ELSE IF fallback_year # NULL /\ compact_match # <<>>
        THEN date_cls(fallback_year[1], MONTH_MAP[SubSeq(compact_match[1], 1, 3)],
                      digits_value(compact_match[2]))
        ELSE Return(NULL)

----
\* One call of _parse_pdf_date_token (DateSpec); arg is [token, fallback_year,
\* default_year].

\* n in two digits
two_digits(n) == IF n < 10 THEN <<"0">> \o str_of_nat(n) ELSE str_of_nat(n)

\* month/day/year in digits, padded to two digits or not
SlashToken(m, d, yy, padded) ==
    (IF padded THEN two_digits(m) ELSE str_of_nat(m)) \o <<"/">>
        \o (IF padded THEN two_digits(d) ELSE str_of_nat(d)) \o <<"/">> \o two_digits(yy)

\* a month abbreviation and a day, sep between them
MonthDayToken(name, d, sep) == name \o sep \o str_of_nat(d)

\* a month abbreviation, a day and a four-digit year
MonthDayYearToken(name, d, y) == name \o <<" ">> \o str_of_nat(d) \o <<" ">> \o str_of_nat(y)

TwoDigitYears == {0, 24, 99}
TokenYears == {2022, 2024}
Separators == {<<>>, <<" ">>}

DateTokens ==
    {None, EmptyStr, <<" ", " ", " ">>, <<"X", "Y", "Z">>, <<"M", "A", "R">>, <<"3", "1">>, <<"M", "a", "r", ".", " ", "3">>, <<" ", "m", "a", "r", " ", "3", " ">>, <<"S", "e", "p", "t", " ", "5">>}
        \cup {SlashToken(m, d, yy, padded) :
                 m \in 1..12, d \in 1..31, yy \in TwoDigitYears, padded \in BOOLEAN}
        \cup {MonthDayToken(name, d, sep) :
                 name \in MonthAlternatives, d \in 1..31, sep \in Separators}
        \cup {MonthDayYearToken(name, d, y) :
                 name \in MonthAlternatives, d \in 1..31, y \in TokenYears}

FallbackYears == {NULL, <<2023>>, <<2024>>}

\* the year the installed pandas gives a date string that names none: it has none
\* to give (NaT), or a leap year, or a common year
DefaultYears == {NULL, <<2024>>, <<1900>>}

DateInit ==
    /\ arg \in [token : DateTokens, fallback_year : FallbackYears, default_year : DefaultYears]
    /\ op = "none" /\ ret = <<>> /\ AggIdle /\ WorthIdle /\ CategorizerIdle /\ ServiceIdle

CallParsePdfDateToken ==
    Returns("_parse_pdf_date_token",
            _parse_pdf_date_token(arg.token, arg.fallback_year, arg.default_year))

DateNext == CallParsePdfDateToken

DateSpec == DateInit /\ [][DateNext]_vars

----
\* how a date token reads

\* month/day/year in digits, the year in two digits
IsSlashDate(t) ==
    LET parts == split(t, "/")
    IN  /\ Len(parts) = 3
        /\ \A i \in 1..3 : IsDigits(parts[i]) /\ Len(parts[i]) <= 2
        /\ Len(parts[3]) = 2

SlashMonth(t) == digits_value(split(t, "/")[1])
SlashDay(t) == digits_value(split(t, "/")[2])
SlashYear(t) == 2000 + digits_value(split(t, "/")[3])

\* a month abbreviation, then the digits given (one or two numbers), blanks between
IsMonthToken(t, numbers) ==
    LET words == lex(t)
    IN  /\ t # None
        /\ Len(words) = 1 + numbers
        /\ words[1] \in MonthAlternatives
        /\ \A i \in 2..Len(words) : IsDigits(words[i])
        /\ \/ numbers = 1 /\ \E sep \in Separators : t = words[1] \o sep \o words[2]
           \/ numbers = 2 /\ t = words[1] \o <<" ">> \o words[2] \o <<" ">> \o words[3]
                          /\ Len(words[3]) = 4

TokenMonth(t) == MONTH_MAP[lex(t)[1]]
TokenDay(t) == digits_value(lex(t)[2])
TokenYear(t) == digits_value(lex(t)[3])

\* C13: for every token month/day/year with a two-digit year that names a real
\* calendar day, _parse_pdf_date_token returns that month and day in the year
\* 2000 + YY, whatever the fallback year, None included; it does not raise.
C13_SlashDateParsed ==
    ( /\ op = "_parse_pdf_date_token"
      /\ IsSlashDate(arg.token)
      /\ IsValidDate(SlashYear(arg.token), SlashMonth(arg.token), SlashDay(arg.token)) ) =>
        ret[1] = Return(<<Date(SlashYear(arg.token), SlashMonth(arg.token), SlashDay(arg.token))>>)

\* C14: a month abbreviation followed by a day, with or without a blank, comes
\* back in the supplied fallback year Y with the month and the day it names; a
\* token that carries its own year (MAR 3 2022, 01/15/24) comes back in that year,
\* whatever Y is.
C14_FallbackYearApplied ==
    op = "_parse_pdf_date_token" =>
        /\ ( /\ IsMonthToken(arg.token, 1)
             /\ arg.fallback_year # NULL
             /\ IsValidDate(arg.fallback_year[1], TokenMonth(arg.token), TokenDay(arg.token)) ) =>
                ret[1] = Return(<<Date(arg.fallback_year[1], TokenMonth(arg.token),
                                       TokenDay(arg.token))>>)
        /\ ( /\ IsMonthToken(arg.token, 2)
             /\ IsValidDate(TokenYear(arg.token), TokenMonth(arg.token), TokenDay(arg.token)) ) =>
                ret[1] = Return(<<Date(TokenYear(arg.token), TokenMonth(arg.token),
                                       TokenDay(arg.token))>>)
        /\ ( /\ IsSlashDate(arg.token)
             /\ IsValidDate(SlashYear(arg.token), SlashMonth(arg.token), SlashDay(arg.token)) ) =>
                /\ ret[1].kind = "return"
                /\ ret[1].value # NULL
                /\ ret[1].value[1].year = SlashYear(arg.token)

----
\* pandas, as far as _parse_csv_bytes uses it.  A CSV file is the sequence of its
\* lines, a line the sequence of its fields; the lines of one file have the same
\* number of fields.

\* a missing value of an object column
NaN == <<"NaN">>

\* the field texts read_csv reads as missing
NA_VALUES ==
    { EmptyStr, <<"#", "N", "/", "A">>, <<"#", "N", "A">>, <<"<", "N", "A", ">">>, <<"N", "/", "A">>, <<"N", "A">>, <<"N", "U", "L", "L">>, <<"N", "a", "N">>, <<"N", "o", "n", "e">>,
      <<"n", "/", "a">>, <<"n", "a", "n">>, <<"n", "u", "l", "l">>, <<"-", "N", "a", "N">>, <<"-", "n", "a", "n">> }

na_filter(line) == [i \in 1..Len(line) |-> IF line[i] \in NA_VALUES THEN NaN ELSE line[i]]

\* pd.read_csv(buffer, header=None): <<>> when it raises (no line to parse),
\* otherwise << the rows >>
read_csv_headerless(lines) ==
    IF lines = <<>> THEN <<>>
    ELSE << [i \in 1..Len(lines) |-> na_filter(lines[i])] >>

\* pd.read_csv(buffer): <<>> when it raises, otherwise << [columns, data] >>; a
\* header field that is empty is named Unnamed: <position from 0>
read_csv(lines) ==
    IF lines = <<>> THEN <<>>
    ELSE << [columns |-> [i \in 1..Len(lines[1]) |->
                             IF lines[1][i] = EmptyStr
                             THEN <<"U", "n", "n", "a", "m", "e", "d", ":", " ">> \o str_of_nat(i - 1)
                             ELSE lines[1][i]],
             data |-> [i \in 1..(Len(lines) - 1) |-> na_filter(lines[i + 1])]] >>

\* pd.to_numeric(cell, errors="coerce"): NULL is the float NaN
to_numeric(cell) == IF cell = NaN THEN NULL ELSE float(cell)

\* Series.astype(str) on one cell: a missing value becomes the text nan, or stays
\* missing, as the installed pandas has it (nan_as_text)
astype_str(cell, nan_as_text) ==
    IF cell = NaN THEN (IF nan_as_text THEN <<"n", "a", "n">> ELSE NaN) ELSE cell

\* Series.str.strip() on one cell
str_strip(cell) == IF cell = NaN THEN NaN ELSE strip(cell)

\* x - y on floats
RECURSIVE float_norm(_, _)
float_norm(num, den) ==
    IF den > 1 /\ num % 10 = 0 THEN float_norm(num \div 10, den \div 10) ELSE Float(num, den)

float_sub(x, y) ==
    LET den == IF x.den >= y.den THEN x.den ELSE y.den
    IN  float_norm(x.num * (den \div x.den) - y.num * (den \div y.den), den)

\* Series.fillna(0) on one value
fillna_zero(x) == IF x = NULL THEN Zero ELSE x[1]

\* pd.isna on the field f of a row: a date is NaT, a text NaN or a float NaN
isna(row, f) == IF f = "description" THEN row[f] = NaN ELSE row[f] = <<>>

\* DataFrame.dropna(subset=subset): the rows that miss no field of subset
RECURSIVE dropna(_, _)
dropna(frame, subset) ==
    IF frame = <<>> THEN <<>>
    ELSE IF \E f \in subset : isna(Head(frame), f) THEN dropna(Tail(frame), subset)
    ELSE <<Head(frame)>> \o dropna(Tail(frame), subset)

----
\* src/app/routers/uploads.py: _parse_csv_bytes

_normalize_header(name) ==
    remove_char(remove_char(lower(strip(or_else(name, EmptyStr))), " "), "_")

\* header_map[key]: the position of the column whose normalized name is key, the
\* last one if there are several; 0 when key is not in header_map
header_map(columns, key) ==
    LET hits == {i \in 1..Len(columns) : _normalize_header(columns[i]) = key}
    IN  IF hits = {} THEN 0 ELSE CHOOSE i \in hits : \A j \in hits : j <= i

\* pd.to_datetime(series, errors="coerce").dt.date on one cell; the cells of a
\* statement name their year, so the library's default year plays no part
cell_date(cell) == IF cell = NaN THEN NaT ELSE to_datetime(cell, NULL)

\* one row of the normalized frame; balance is NULL where the frame has no such
\* column
ParsedRow(date, description, amount, has_balance, balance) ==
    [date |-> date, description |-> description, amount |-> amount,
     has_balance |-> has_balance, balance |-> balance]

\* try_standard_format: <<>> for None, otherwise << the normalized frame >>
try_standard_format(lines, nan_as_text) ==
    LET df == read_csv(lines)
        columns == df[1].columns
        date_col == header_map(columns, <<"d", "a", "t", "e">>)
        desc_col == header_map(columns, <<"d", "e", "s", "c", "r", "i", "p", "t", "i", "o", "n">>)
        amount_col == header_map(columns, <<"a", "m", "o", "u", "n", "t">>)
        balance_col == header_map(columns, <<"b", "a", "l", "a", "n", "c", "e">>)
        normalized ==
            [i \in 1..Len(df[1].data) |->
                LET row == df[1].data[i]
                IN  ParsedRow(cell_date(row[date_col]),
                              astype_str(row[desc_col], nan_as_text),
                              to_numeric(row[amount_col]),
                              balance_col # 0,
                              IF balance_col # 0 THEN to_numeric(row[balance_col]) ELSE NULL)]
    IN  IF df = <<>> THEN <<>>
        ELSE IF date_col = 0 \/ desc_col = 0 \/ amount_col = 0 THEN <<>>
        ELSE << dropna(normalized, {"date", "description", "amount"}) >>

\* a slip try_statement_format could have: the four-column shape too is read as
\* withdrawal and deposit, the amount being their difference
try_statement_format_amount_minus_balance(lines, nan_as_text) ==
    LET df == read_csv_headerless(lines)
        normalized ==
            [i \in 1..Len(df[1]) |->
                LET row == df[1][i]
                    withdrawals == fillna_zero(to_numeric(row[3]))
                    deposits == fillna_zero(to_numeric(row[4]))
                IN  ParsedRow(cell_date(row[1]),
                              str_strip(astype_str(row[2], nan_as_text)),
                              <<float_sub(deposits, withdrawals)>>,
                              Len(row) >= 5,
                              IF Len(row) >= 5 THEN to_numeric(row[5]) ELSE NULL)]
    IN  IF df = <<>> THEN <<>>
        ELSE IF Len(df[1][1]) < 4 THEN <<>>
        ELSE << dropna(dropna(normalized, {"date", "description"}), {"amount"}) >>

\* try_statement_format: <<>> for None, otherwise << the normalized frame >>
try_statement_format(lines, nan_as_text) ==
    LET df == read_csv_headerless(lines)
        normalized ==
            [i \in 1..Len(df[1]) |->
                LET row == df[1][i]
                    withdrawals == fillna_zero(to_numeric(row[3]))
                    deposits == fillna_zero(to_numeric(row[4]))
                IN  IF Len(row) >= 5
                    THEN ParsedRow(cell_date(row[1]),
                                   str_strip(astype_str(row[2], nan_as_text)),
                                   <<float_sub(deposits, withdrawals)>>,
                                   TRUE, to_numeric(row[5]))
                    ELSE ParsedRow(cell_date(row[1]),
                                   str_strip(astype_str(row[2], nan_as_text)),
                                   to_numeric(row[3]),
                                   FALSE, NULL)]
    IN  IF df = <<>> THEN <<>>
        ELSE IF Len(df[1][1]) < 4 THEN <<>>
        ELSE << dropna(dropna(normalized, {"date", "description"}), {"amount"}) >>

CSV_NOT_RECOGNIZED == "ValueError: CSV format not recognized."

\* _parse_csv_bytes: Return(records) or Raise(CSV_NOT_RECOGNIZED)
_parse_csv_bytes(lines, nan_as_text) ==
    LET standard == try_standard_format(lines, nan_as_text)
        parsed_df == IF standard = <<>> THEN try_statement_format(lines, nan_as_text)
                     ELSE standard
    IN  IF parsed_df = <<>> \/ parsed_df[1] = <<>> THEN Raise(CSV_NOT_RECOGNIZED)
        ELSE Return(parsed_df[1])

----
\* One call of _parse_csv_bytes (CsvSpec); arg is [lines, nan_as_text].

\* an uploaded file holds at most MaxLines lines
MaxLines == 3

Line5(a, b, c, d, e) == <<a, b, c, d, e>>
Line4(a, b, c, d) == <<a, b, c, d>>

GroceryLine == Line5(<<"0", "1", "/", "1", "5", "/", "2", "4">>, <<"G", "R", "O", "C", "E", "R", "Y", " ", "S", "T", "O", "R", "E">>, <<"5", "0", ".", "0", "0">>, <<"0", ".", "0", "0">>, <<"4", "5", "0", ".", "0", "0">>)

CsvLines5 ==
    { Line5(<<"D", "a", "t", "e">>, <<"D", "e", "s", "c", "r", "i", "p", "t", "i", "o", "n">>, <<"A", "m", "o", "u", "n", "t">>, <<"B", "a", "l", "a", "n", "c", "e">>, <<"M", "e", "m", "o">>),
      Line5(<<"D", "a", "t", "e">>, <<"D", "e", "s", "c", "r", "i", "p", "t", "i", "o", "n">>, <<"W", "i", "t", "h", "d", "r", "a", "w", "a", "l", "s">>, <<"D", "e", "p", "o", "s", "i", "t", "s">>, <<"B", "a", "l", "a", "n", "c", "e">>),
      GroceryLine,
      Line5(<<"0", "1", "/", "1", "6", "/", "2", "4">>, <<"P", "A", "Y", "R", "O", "L", "L">>, <<>>, <<"1", "2", "0", "0", ".", "5", "0">>, <<"1", "6", "5", "0", ".", "5", "0">>),
      Line5(<<"0", "1", "/", "1", "7", "/", "2", "4">>, <<"R", "E", "N", "T">>, <<"n", "/", "a">>, <<"a", "b", "c">>, <<>>),
      Line5(<<"s", "o", "o", "n">>, <<"C", "O", "F", "F", "E", "E">>, <<"3", ".", "5", "0">>, <<"0", ".", "0", "0">>, <<"4", "4", "7", ".", "0", "0">>),
      Line5(<<"0", "1", "/", "1", "8", "/", "2", "4">>, <<>>, <<"5", ".", "0", "0">>, <<"0", ".", "0", "0">>, <<"4", "4", "2", ".", "0", "0">>),
      Line5(<<"0", "1", "/", "1", "9", "/", "2", "4">>, <<" ">>, <<"5", ".", "0", "0">>, <<"0", ".", "0", "0">>, <<"4", "3", "7", ".", "0", "0">>) }

CsvLines4 ==
    { Line4(<<" ", "d", "a", "t", "e">>, <<"D", "E", "S", "C", "R", "I", "P", "T", "I", "O", "N">>, <<"A", "m", "o", "u", "n", "t">>, <<"B", "a", "l", "a", "n", "c", "e">>),
      Line4(<<"0", "1", "/", "1", "5", "/", "2", "4">>, <<"G", "R", "O", "C", "E", "R", "Y", " ", "S", "T", "O", "R", "E">>, <<"-", "5", "0", ".", "0", "0">>, <<"4", "5", "0", ".", "0", "0">>),
      Line4(<<"0", "1", "/", "1", "6", "/", "2", "4">>, <<"P", "A", "Y", "R", "O", "L", "L">>, <<"1", "2", "0", "0", ".", "5", "0">>, <<"1", "6", "5", "0", ".", "5", "0">>),
      Line4(<<"0", "1", "/", "1", "7", "/", "2", "4">>, <<"R", "E", "N", "T">>, <<"a", "b", "c">>, <<"2", "0", ".", "0", "0">>),
      Line4(<<>>, <<"C", "O", "F", "F", "E", "E">>, <<"-", "3", ".", "5", "0">>, <<"4", "4", "7", ".", "0", "0">>),
      Line4(<<"0", "1", "/", "1", "8", "/", "2", "4">>, <<>>, <<"-", "5", ".", "0", "0">>, <<"4", "4", "2", ".", "0", "0">>),
      Line4(<<"0", "1", "/", "1", "9", "/", "2", "4">>, <<" ">>, <<"-", "5", ".", "0", "0">>, <<"4", "3", "7", ".", "0", "0">>) }

CsvLines3 ==
    { <<<<"D", "a", "t", "e">>, <<"D", "e", "s", "c", "r", "i", "p", "t", "i", "o", "n">>, <<"A", "m", "o", "u", "n", "t">>>>,
      <<<<"0", "1", "/", "1", "5", "/", "2", "4">>, <<"G", "R", "O", "C", "E", "R", "Y", " ", "S", "T", "O", "R", "E">>, <<"-", "5", "0", ".", "0", "0">>>>,
      <<<<"0", "1", "/", "1", "8", "/", "2", "4">>, <<>>, <<"-", "5", ".", "0", "0">>>>,
      <<<<"s", "o", "o", "n">>, <<"C", "O", "F", "F", "E", "E">>, <<"x">>>> }

\* the sequences of 1..n elements of S
RECURSIVE SeqsUpTo(_, _)
SeqsUpTo(S, n) ==
    IF n = 0 THEN {}
    ELSE LET shorter == SeqsUpTo(S, n - 1)
         IN  {<<x>> : x \in S} \cup shorter \cup {<<x>> \o t : x \in S, t \in shorter}

CsvFiles == SeqsUpTo(CsvLines5, MaxLines) \cup SeqsUpTo(CsvLines4, MaxLines)
                \cup SeqsUpTo(CsvLines3, MaxLines)

CsvInit ==
    /\ arg \in [lines : CsvFiles, nan_as_text : BOOLEAN]
    /\ op = "none" /\ ret = <<>> /\ AggIdle /\ WorthIdle /\ CategorizerIdle /\ ServiceIdle

CallParseCsvBytes == Returns("_parse_csv_bytes", _parse_csv_bytes(arg.lines, arg.nan_as_text))

CsvNext == CallParseCsvBytes

CsvSpec == CsvInit /\ [][CsvNext]_vars

----
\* how a headerless file reads

\* the file has no usable header and at least four columns
IsHeaderless(lines) ==
    /\ \E key \in {<<"d", "a", "t", "e">>, <<"d", "e", "s", "c", "r", "i", "p", "t", "i", "o", "n">>, <<"a", "m", "o", "u", "n", "t">>} : header_map(lines[1], key) = 0
    /\ Len(lines[1]) >= 4

\* the date a line names, NaT if none
LineDate(line) == to_datetime(line[1], NULL)

\* the line names a date and a description
IsDatedLine(line) == LineDate(line) # NaT /\ line[2] \notin NA_VALUES

\* a column of the line as a number, zero when unparseable
NumberOrZero(line, column) == fillna_zero(to_numeric(na_filter(line)[column]))

\* deposit (column 3) minus withdrawal (column 2), counting the columns from 0
DepositMinusWithdrawal(line) == float_sub(NumberOrZero(line, 4), NumberOrZero(line, 3))

\* the rows returned for the lines that name the date of line
RowsOf(line) ==
    IF ret[1].kind # "return" THEN {}
    ELSE {k \in 1..Len(ret[1].value) : ret[1].value[k].date = LineDate(line)}

GroceryRow ==
    ParsedRow(<<Date(2024, 1, 15)>>, <<"G", "R", "O", "C", "E", "R", "Y", " ", "S", "T", "O", "R", "E">>, <<Float(-50, 1)>>, TRUE, <<Float(450, 1)>>)

\* C15 as claimed: in the headerless layout, four columns or five, every line
\* that names a date and a description gives a row whose amount is deposit minus
\* withdrawal, each zero when unparseable; the five-column line
\* 01/15/24,GROCERY STORE,50.00,0.00,450.00 gives amount -50.00, balance 450.00.
C15_DepositMinusWithdrawal ==
    (op = "_parse_csv_bytes" /\ IsHeaderless(arg.lines)) =>
        /\ \A i \in 1..Len(arg.lines) :
              LET line == arg.lines[i]
              IN  /\ IsDatedLine(line) => RowsOf(line) # {}
                  /\ \A k \in RowsOf(line) :
                        ret[1].value[k].amount = <<DepositMinusWithdrawal(line)>>
        /\ arg.lines = <<GroceryLine>> => ret[1] = Return(<<GroceryRow>>)

\* C15, amended: in the five-column shape every line that names a date and a
\* description gives a row whose amount is deposit minus withdrawal, each zero when
\* unparseable, and whose balance is column 4; in the four-column shape column 2
\* is the signed amount itself, a line whose column 2 is unparseable gives no row,
\* and no balance is read.
C15_HeaderlessAmount ==
    (op = "_parse_csv_bytes" /\ IsHeaderless(arg.lines)) =>
        /\ \A i \in 1..Len(arg.lines) :
              LET line == arg.lines[i]
                  amount == to_numeric(na_filter(line)[3])
              IN  IF Len(line) >= 5
                  THEN /\ IsDatedLine(line) => RowsOf(line) # {}
                       /\ \A k \in RowsOf(line) :
                             /\ ret[1].value[k].amount = <<DepositMinusWithdrawal(line)>>
                             /\ ret[1].value[k].has_balance
                             /\ ret[1].value[k].balance = to_numeric(na_filter(line)[5])
                  ELSE /\ (IsDatedLine(line) /\ amount # NULL) => RowsOf(line) # {}
                       /\ amount = NULL => RowsOf(line) = {}
                       /\ \A k \in RowsOf(line) :
                             /\ ret[1].value[k].amount = amount
                             /\ ~ret[1].value[k].has_balance
        /\ arg.lines = <<GroceryLine>> => ret[1] = Return(<<GroceryRow>>)

\* of the four-column lines 01/15/24,GROCERY STORE,-50.00,450.00 and
\* 01/17/24,RENT,abc,20.00 the first came back with amount -50.00 and no balance,
\* the second did not come back
C15_Witness ==
    /\ op = "_parse_csv_bytes"
    /\ arg.lines = << Line4(<<"0", "1", "/", "1", "5", "/", "2", "4">>, <<"G", "R", "O", "C", "E", "R", "Y", " ", "S", "T", "O", "R", "E">>, <<"-", "5", "0", ".", "0", "0">>, <<"4", "5", "0", ".", "0", "0">>),
                      Line4(<<"0", "1", "/", "1", "7", "/", "2", "4">>, <<"R", "E", "N", "T">>, <<"a", "b", "c">>, <<"2", "0", ".", "0", "0">>) >>
    /\ ret[1] = Return(<< ParsedRow(<<Date(2024, 1, 15)>>, <<"G", "R", "O", "C", "E", "R", "Y", " ", "S", "T", "O", "R", "E">>,
                                    <<Float(-50, 1)>>, FALSE, NULL) >>)

----
\* src/app/services/pdf_ingestion.py: TableStrategy.  A table is a sequence of
\* rows, a row a sequence of cells, a cell a text or None.  Positions in a row
\* count from 0 as in the source; a position that is None is <<>>, the position
\* i is <<i>>.

\* `sub in s`
contains(s, sub) ==
    \E i \in 1..(Len(s) - Len(sub) + 1) : SubSeq(s, i, i + Len(sub) - 1) = sub

\* [f(part) for part in parts if f(part)] with f = str.strip
RECURSIVE stripped_parts(_)
stripped_parts(parts) ==
    IF parts = <<>> THEN <<>>
    ELSE IF strip(Head(parts)) = <<>> THEN stripped_parts(Tail(parts))
    ELSE <<strip(Head(parts))>> \o stripped_parts(Tail(parts))

_split_cell(cell) ==
    IF cell = None THEN <<>>
    ELSE stripped_parts(split(replace_char(cell, "\r", "\n"), "\n"))

HEADER_KEYWORDS ==
    { <<"d", "e", "s", "c", "r", "i", "p", "t", "i", "o", "n">>, <<"w", "i", "t", "h", "d", "r", "a", "w", "a", "l">>, <<"d", "e", "p", "o", "s", "i", "t">>, <<"d", "a", "t", "e">>, <<"b", "a", "l", "a", "n", "c", "e">>, <<"t", "r", "a", "n", "s", "a", "c", "t", "i", "o", "n">> }

\* TableStrategy._find_index
_find_index(header, keywords) ==
    LET hits == {i \in 1..Len(header) : \E keyword \in keywords : contains(header[i], keyword)}
    IN  IF hits = {} THEN <<>>
        ELSE << (CHOOSE i \in hits : \A j \in hits : i <= j) - 1 >>

\* TableStrategy._value_at
_value_at(split_cols, column_idx, row_idx) ==
    IF column_idx = <<>> THEN EmptyStr
    ELSE IF column_idx[1] >= Len(split_cols) THEN EmptyStr
    ELSE IF row_idx >= Len(split_cols[column_idx[1] + 1]) THEN EmptyStr
    ELSE split_cols[column_idx[1] + 1][row_idx + 1]

\* `idx if idx is not None else (default if len(header) > default else None)`
index_or_position(idx, header, default) ==
    IF idx = <<>> /\ Len(header) > default THEN <<default>> ELSE idx

\* abs() of a float
float_abs(x) == IF x.num < 0 THEN float_neg(x) ELSE x

\* a TransactionRow; date and amount are <<value>> and balance is NULL or
\* <<value>>, as the cells of a parsed CSV row are
TransactionRow(date, description, amount, balance) ==
    [date |-> date, description |-> description, amount |-> amount, balance |-> balance]

\* what one sub-row of a table row comes to: Return(<<>>) when it is skipped,
\* Return(<<row>>) when it is yielded, Raise(...) when the date parser raises
table_sub_row(split_cols, idx, desc_idx, withdraw_idx, deposit_idx, date_idx, balance_idx, fallback_year, default_year) ==
    LET description == _value_at(split_cols, desc_idx, idx)
        withdrawals == _value_at(split_cols, withdraw_idx, idx)
        deposits == _value_at(split_cols, deposit_idx, idx)
        date_token == _value_at(split_cols, date_idx, idx)
        parsed_date == _parse_pdf_date_token(date_token, fallback_year, default_year)
        debit == _clean_amount(Str(withdrawals))
        credit == _clean_amount(Str(deposits))
        amount == IF debit # NULL /\ debit[1].num # 0 THEN <<float_neg(float_abs(debit[1]))>>
                  ELSE IF credit # NULL /\ credit[1].num # 0 THEN <<float_abs(credit[1])>>
                  ELSE NULL
        balance_value == IF balance_idx # <<>>
                         THEN _clean_amount(Str(_value_at(split_cols, balance_idx, idx)))
                         ELSE NULL
    IN  IF description = <<>> /\ withdrawals = <<>> /\ deposits = <<>> THEN Return(<<>>)
        ELSE IF startswith(upper(description), <<"S", "T", "A", "R", "T", "I", "N", "G">>)
                \/ startswith(upper(description), <<"E", "N", "D", "I", "N", "G">>) THEN Return(<<>>)
        ELSE IF parsed_date.kind = "raise" THEN parsed_date
        ELSE IF parsed_date.value = NULL \/ amount = NULL THEN Return(<<>>)
        ELSE Return(<<TransactionRow(parsed_date.value, description, amount, balance_value)>>)

\* max((len(col) for col in split_cols), default=0)
RECURSIVE max_len(_)
max_len(split_cols) ==
    IF split_cols = <<>> THEN 0
    ELSE LET rest == max_len(Tail(split_cols))
         IN  IF Len(Head(split_cols)) > rest THEN Len(Head(split_cols)) ELSE rest

\* the rows yielded so far followed by those of the outcome next, unless either
\* raised
rows_then(sofar, next) ==
    IF sofar.kind = "raise" THEN sofar
    ELSE IF next.kind = "raise" THEN next
    ELSE Return(sofar.value \o next.value)

\* rows_then of two outcomes, each computed once
then_rows(sofar, next) ==
    CHOOSE outcome \in {rows_then(s, n) : s \in {sofar}, n \in {next}} : TRUE

\* the loop `for idx in range(max_len)` over the sub-rows idx.. of one table row
RECURSIVE table_row_from(_, _, _, _, _)
table_row_from(split_cols, idx, indices, fallback_year, default_year) ==
    IF idx >= max_len(split_cols) THEN Return(<<>>)
    ELSE then_rows(table_sub_row(split_cols, idx, indices.desc, indices.withdraw,
                                 indices.deposit, indices.date, indices.balance,
                                 fallback_year, default_year),
                   table_row_from(split_cols, idx + 1, indices, fallback_year, default_year))

\* the loop `for raw_row in table[1:]`
RECURSIVE table_rows(_, _, _, _)
table_rows(raw_rows, indices, fallback_year, default_year) ==
    IF raw_rows = <<>> THEN Return(<<>>)
    ELSE then_rows(table_row_from([i \in 1..Len(Head(raw_rows)) |-> _split_cell(Head(raw_rows)[i])],
                                  0, indices, fallback_year, default_year),
                   table_rows(Tail(raw_rows), indices, fallback_year, default_year))

\* TableStrategy._extract_from_table: Return(the rows it yields) or Raise(...)
_extract_from_table(table, fallback_year, default_year) ==
    LET header == [i \in 1..Len(table[1]) |-> lower(strip(or_else(table[1][i], EmptyStr)))]
        found == _find_index(header, {<<"d", "e", "s", "c", "r", "i", "p", "t", "i", "o", "n">>, <<"t", "r", "a", "n", "s", "a", "c", "t", "i", "o", "n">>, <<"d", "e", "t", "a", "i", "l", "s">>})
        indices ==
            [desc |-> IF found = <<>> THEN <<0>> ELSE found,
             withdraw |-> index_or_position(_find_index(header, {<<"w", "i", "t", "h", "d", "r", "a", "w">>, <<"d", "e", "b", "i", "t">>}), header, 1),
             deposit |-> index_or_position(_find_index(header, {<<"d", "e", "p", "o", "s", "i", "t">>, <<"c", "r", "e", "d", "i", "t">>}), header, 2),
             date |-> index_or_position(_find_index(header, {<<"d", "a", "t", "e">>}), header, 3),
             balance |-> index_or_position(_find_index(header, {<<"b", "a", "l", "a", "n", "c", "e">>}), header, 4)]
    IN  IF table = <<>> THEN Return(<<>>)
        ELSE IF ~\E keyword \in HEADER_KEYWORDS : \E i \in 1..Len(header) :
                    contains(header[i], keyword)
        THEN Return(<<>>)
        ELSE table_rows(Tail(table), indices, fallback_year, default_year)

\* the loop `for table in tables`
RECURSIVE tables_rows(_, _, _)
tables_rows(tables, fallback_year, default_year) ==
    IF tables = <<>> THEN Return(<<>>)
    ELSE then_rows(_extract_from_table(Head(tables), fallback_year, default_year),
                   tables_rows(Tail(tables), fallback_year, default_year))

\* a page of the document, as pdfplumber gives it: the text of extract_text()
\* (None when it returns None), and the tables of extract_tables(), which raises
\* when crashes is set
Page(text, tables, crashes) == [text |-> text, tables |-> tables, crashes |-> crashes]

TABLES_CRASH == "Exception: extract_tables failed"

\* TableStrategy.extract
TableStrategy_extract(page, fallback_year, default_year) ==
    IF page.crashes THEN Raise(TABLES_CRASH)
    ELSE tables_rows(page.tables, fallback_year, default_year)

----
\* src/app/services/pdf_ingestion.py: the fallback year, RegexTextStrategy and
\* PDFTransactionExtractor

\* (?:JAN|...|DEC) under re.IGNORECASE matched at the head of s: the lengths of
\* the alternatives that match, in the order the regex tries them
month_lengths_at(s) ==
    IF Len(s) >= 3 /\ upper(SubSeq(s, 1, 3)) \in MonthAlternatives
    THEN IF Len(s) >= 4 /\ upper(SubSeq(s, 1, 4)) = <<"S", "E", "P", "T">> THEN <<3, 4>> ELSE <<3>>
    ELSE <<>>

\* \s*\d{1,2}[-/ ]+(\d{2,4}) matched at the head of s: <<the digits of the group>>
\* or <<>>
day_and_year_at(s) ==
    LET blanks == run_length(s, Whitespace)
        after_blanks == SubSeq(s, blanks + 1, Len(s))
        day == run_length(after_blanks, Digits)
        after_day == SubSeq(after_blanks, day + 1, Len(after_blanks))
        separators == run_length(after_day, {"-", "/", " "})
        after_separators == SubSeq(after_day, separators + 1, Len(after_day))
        year == run_length(after_separators, Digits)
    IN  IF day \in 1..2 /\ separators >= 1 /\ year >= 2
        THEN <<SubSeq(after_separators, 1, IF year > 4 THEN 4 ELSE year)>>
        ELSE <<>>

\* the group of the match of the whole pattern at the head of s, or <<>>
RECURSIVE year_match_at(_, _)
year_match_at(s, lengths) ==
    IF lengths = <<>> THEN <<>>
    ELSE LET found == day_and_year_at(SubSeq(s, Head(lengths) + 1, Len(s)))
         IN  IF found # <<>> THEN found ELSE year_match_at(s, Tail(lengths))

\* re.search: the group of the leftmost match in s, or <<>>
year_search(s) ==
    LET starts == {i \in 1..Len(s) :
                      year_match_at(SubSeq(s, i, Len(s)), month_lengths_at(SubSeq(s, i, Len(s)))) # <<>>}
        first == CHOOSE i \in starts : \A j \in starts : i <= j
    IN  IF starts = {} THEN <<>>
        ELSE year_match_at(SubSeq(s, first, Len(s)), month_lengths_at(SubSeq(s, first, Len(s))))

\* _infer_year_from_text: NULL for None
_infer_year_from_text(text) ==
    LET match == year_search(text)
        year == digits_value(match[1])
    IN  IF text = <<>> THEN NULL
        ELSE IF match = <<>> THEN NULL
        ELSE IF year < 100 THEN <<year + 2000>> ELSE <<year>>

\* the last position of s that holds a character of class, 0 if none
last_index(s, class) ==
    LET held == {i \in 1..Len(s) : s[i] \in class}
    IN  IF held = {} THEN 0 ELSE CHOOSE i \in held : \A j \in held : j <= i

\* [\+\-]?\$?\d[\d,]*(?:\.\d{2})?$ matched against the whole of s
is_amount_text(s) ==
    LET unsigned == IF s # <<>> /\ Head(s) \in {"+", "-"} THEN Tail(s) ELSE s
        number == IF unsigned # <<>> /\ Head(unsigned) = "$" THEN Tail(unsigned) ELSE unsigned
        whole == run_length(number, Digits \cup {","})
        cents == SubSeq(number, whole + 1, Len(number))
    IN  /\ number # <<>> /\ Head(number) \in Digits
        /\ \/ cents = <<>>
           \/ Len(cents) = 3 /\ Head(cents) = "." /\ IsDigits(Tail(cents))

\* RegexTextStrategy.LINE_RE.match(line): <<>> or << [date, desc, amount] >>, the
\* groups of the match.  The date group runs to the end of the first run of
\* digits; the amount is what follows the last whitespace of the line; the first
\* \s+ takes as much as leaves a description, the description as little as leaves
\* whitespace before the amount.
LINE_RE_match(line) ==
    LET name == month_lengths_at(line)
        words == run_length(SubSeq(line, 4, Len(line)), Letters \cup Whitespace)
        day == run_length(SubSeq(line, 4 + words, Len(line)), Digits)
        p == 3 + words + day
        w1 == run_length(SubSeq(line, p + 1, Len(line)), Whitespace)
        m == last_index(line, Whitespace)
        q == m - run_length([i \in 1..m |-> line[m + 1 - i]], Whitespace) + 1
        between == q - 1 >= p + w1 + 1
        desc == IF between THEN SubSeq(line, p + w1 + 1, q - 1)
                ELSE SubSeq(line, p + w1 - 1, p + w1 - 1)
        amount == SubSeq(line, m + 1, Len(line))
    IN  IF /\ name # <<>>
           /\ day \in 1..2
           /\ w1 >= 1
           /\ between \/ w1 >= 3
           /\ is_amount_text(amount)
        THEN << [date |-> SubSeq(line, 1, p), desc |-> desc, amount |-> amount] >>
        ELSE <<>>

\* what RegexTextStrategy.extract makes of one line
regex_line(line, fallback_year, default_year) ==
    LET match == LINE_RE_match(line)
        parsed_date == _parse_pdf_date_token(match[1].date, fallback_year, default_year)
        amount == _clean_amount(Str(match[1].amount))
    IN  IF match = <<>> THEN Return(<<>>)
        ELSE IF parsed_date.kind = "raise" THEN parsed_date
        ELSE IF parsed_date.value = NULL \/ amount = NULL THEN Return(<<>>)
        ELSE Return(<<TransactionRow(parsed_date.value, match[1].desc, amount, NULL)>>)

\* the loop `for line in lines`
RECURSIVE regex_lines(_, _, _)
regex_lines(lines, fallback_year, default_year) ==
    IF lines = <<>> THEN Return(<<>>)
    ELSE then_rows(regex_line(Head(lines), fallback_year, default_year),
                   regex_lines(Tail(lines), fallback_year, default_year))

\* RegexTextStrategy.extract
RegexTextStrategy_extract(page, fallback_year, default_year) ==
    LET text == or_else(page.text, EmptyStr)
    IN  regex_lines(stripped_parts(split(text, "\n")), fallback_year, default_year)

\* a document: pdfplumber.open raises unless opens is set
Document(opens, pages) == [opens |-> opens, pages |-> pages]

OPEN_CRASH == "Exception: pdfplumber.open failed"

\* an exception of PDFTransactionExtractor.extract: cause is <<>> or
\* <<the exception it was raised from>>
ValueError(message, cause) == [type |-> "ValueError", message |-> message, cause |-> cause]

UNABLE_TO_PARSE == "Unable to parse PDF"
NO_TRANSACTIONS == "No recognizable transactions found in PDF."

\* [(page.extract_text() or "") for page in pages] without the empty ones
RECURSIVE page_texts(_)
page_texts(pages) ==
    IF pages = <<>> THEN <<>>
    ELSE LET text == or_else(Head(pages).text, EmptyStr)
         IN  (IF text = EmptyStr THEN <<>> ELSE <<text>>) \o page_texts(Tail(pages))

\* the loop `for strategy in self.strategies` on one page
page_rows(page, fallback_year, default_year) ==
    then_rows(TableStrategy_extract(page, fallback_year, default_year),
              RegexTextStrategy_extract(page, fallback_year, default_year))

\* the loop `for page in pages`
RECURSIVE pages_rows(_, _, _)
pages_rows(pages, fallback_year, default_year) ==
    IF pages = <<>> THEN Return(<<>>)
    ELSE then_rows(page_rows(Head(pages), fallback_year, default_year),
                   pages_rows(Tail(pages), fallback_year, default_year))

\* the end of PDFTransactionExtractor.extract, transactions being the outcome of
\* the loop over the pages
extract_outcome(transactions) ==
    IF transactions.kind = "raise"
    THEN Raise(ValueError(UNABLE_TO_PARSE, <<transactions.exception>>))
    ELSE IF transactions.value = <<>> THEN Raise(ValueError(NO_TRANSACTIONS, <<>>))
    ELSE transactions

\* a slip PDFTransactionExtractor.extract could have: the empty list is returned
PDFTransactionExtractor_extract_returns_empty(doc, default_year) ==
    IF ~doc.opens THEN Raise(ValueError(UNABLE_TO_PARSE, <<OPEN_CRASH>>))
    ELSE CHOOSE outcome \in
            { IF transactions.kind = "raise" THEN extract_outcome(transactions) ELSE transactions :
                transactions \in
                    { pages_rows(doc.pages, fallback_year, default_year) :
                        fallback_year \in {_infer_year_from_text(join(<<"\n">>, page_texts(doc.pages)))} } } :
            TRUE

\* PDFTransactionExtractor.extract: Return(the rows) or Raise(ValueError(...));
\* the fallback year and the rows are computed once
PDFTransactionExtractor_extract(doc, default_year) ==
    IF ~doc.opens THEN Raise(ValueError(UNABLE_TO_PARSE, <<OPEN_CRASH>>))
    ELSE CHOOSE outcome \in
            { extract_outcome(transactions) :
                transactions \in
                    { pages_rows(doc.pages, fallback_year, default_year) :
                        fallback_year \in {_infer_year_from_text(join(<<"\n">>, page_texts(doc.pages)))} } } :
            TRUE

----
\* The statement parser on bounded uploads: a CSV file goes to _parse_csv_bytes,
\* a PDF document to PDFTransactionExtractor.extract

MaxPages == 2

StatementHeader == <<<<"D", "a", "t", "e">>, <<"D", "e", "s", "c", "r", "i", "p", "t", "i", "o", "n">>, <<"W", "i", "t", "h", "d", "r", "a", "w", "a", "l", "s">>, <<"D", "e", "p", "o", "s", "i", "t", "s">>, <<"B", "a", "l", "a", "n", "c", "e">>>>

\* a table of a statement under StatementHeader
StatementTable(table_rows_) == <<StatementHeader>> \o table_rows_

GroceryPage ==
    Page(<<"D", "a", "t", "e", " ", "D", "e", "s", "c", "r", "i", "p", "t", "i", "o", "n", " ", "W", "i", "t", "h", "d", "r", "a", "w", "a", "l", "s", " ", "D", "e", "p", "o", "s", "i", "t", "s", " ", "B", "a", "l", "a", "n", "c", "e", "\n", "M", "A", "R", " ", "3", " ", "G", "R", "O", "C", "E", "R", "Y", " ", "S", "T", "O", "R", "E", " ", "4", "4", ".", "1", "0", " ", "9", "5", "5", ".", "9", "0">>,
         <<StatementTable(<< <<<<"M", "A", "R", " ", "3">>, <<"G", "R", "O", "C", "E", "R", "Y", " ", "S", "T", "O", "R", "E">>, <<"4", "4", ".", "1", "0">>, <<>>, <<"9", "5", "5", ".", "9", "0">>>> >>)>>, FALSE)

\* two transactions stacked in one table row, the cells separated by newlines
StackedPage ==
    Page(None,
         <<StatementTable(<< <<<<"M", "A", "R", " ", "1", "\n", "M", "A", "R", " ", "2">>, <<"C", "O", "F", "F", "E", "E", "\n", "P", "A", "Y", "R", "O", "L", "L">>, <<"4", ".", "5", "0">>, <<"1", ",", "2", "0", "0", ".", "5", "0">>, None>>,
                             <<<<"M", "A", "R", " ", "1">>, <<"S", "T", "A", "R", "T", "I", "N", "G", " ", "B", "A", "L", "A", "N", "C", "E">>, <<>>, <<"1", "0", "0", ".", "0", "0">>, <<"1", "0", "0", ".", "0", "0">>>> >>)>>, FALSE)

\* a withdrawal whose description cell is empty
NoDescriptionPage ==
    Page(None, <<StatementTable(<< <<<<"M", "A", "R", " ", "4">>, <<>>, <<"1", "2", ".", "0", "0">>, <<>>, <<"9", "4", "3", ".", "9", "0">>>> >>)>>, FALSE)

SlashDatePage ==
    Page(None, <<StatementTable(<< <<<<"0", "1", "/", "1", "5", "/", "2", "4">>, <<"R", "E", "N", "T">>, <<"9", "0", "0", ".", "0", "0">>, <<>>, <<>>>> >>)>>, FALSE)

\* rows without a date, without an amount, with neither
InvalidRowsPage ==
    Page(None,
         <<StatementTable(<< <<<<"s", "o", "o", "n">>, <<"C", "O", "F", "F", "E", "E">>, <<"4", ".", "5", "0">>, <<>>, <<>>>>,
                             <<<<"M", "A", "R", " ", "5">>, <<"C", "O", "F", "F", "E", "E">>, <<"n", "/", "a">>, <<>>, <<>>>>,
                             <<<<>>, <<"C", "O", "F", "F", "E", "E">>, <<>>, <<>>, <<>>>> >>)>>, FALSE)

UnknownTablePage == Page(None, << << <<<<"A">>, <<"B">>>>, <<<<"M", "A", "R", " ", "6">>, <<"7", ".", "0", "0">>>> >> >>, FALSE)

TextPage ==
    Page(<<"S", "t", "a", "t", "e", "m", "e", "n", "t", " ", "M", "A", "R", " ", "1", " ", "-", " ", "2", "0", "2", "2", "\n", "M", "A", "R", " ", "3", " ", "G", "R", "O", "C", "E", "R", "Y", " ", "S", "T", "O", "R", "E", " ", "4", "4", ".", "1", "0", "\n", "T", "o", "t", "a", "l", " ", "4", "4", ".", "1", "0">>, <<>>, FALSE)

SignedTextPage ==
    Page(<<"m", "a", "r", " ", "7", " ", " ", " ", "-", "5", "0", ".", "0", "0", "\n", "A", "P", "R", " ", "2", " ", "R", "E", "F", "U", "N", "D", " ", "+", "$", "2", "0", ".", "0", "0", "\n", "M", "A", "R", " ", "8", " ", "N", "O", "T", "E", "\n", "J", "A", "N", " ", "1", "5", "/", "2", "4", " ", "R", "E", "N", "T", " ", "9", "0", "0", ".", "0", "0">>, <<>>, FALSE)

EmptyPage == Page(None, <<>>, FALSE)

CrashingPage == Page(None, <<>>, TRUE)

PdfPages ==
    { GroceryPage, StackedPage, NoDescriptionPage, SlashDatePage, InvalidRowsPage,
      UnknownTablePage, TextPage, SignedTextPage, EmptyPage, CrashingPage }

Documents ==
    {Document(FALSE, <<>>), Document(TRUE, <<>>)}
        \cup {Document(TRUE, pages) : pages \in SeqsUpTo(PdfPages, MaxPages)}

CsvUploads == [lines : CsvFiles, nan_as_text : BOOLEAN]
PdfUploads == [doc : Documents, default_year : DefaultYears]

IsCsvUpload == "lines" \in DOMAIN arg
IsPdfUpload == "doc" \in DOMAIN arg

StatementInit ==
    /\ arg \in CsvUploads \cup PdfUploads
    /\ op = "none" /\ ret = <<>> /\ AggIdle /\ WorthIdle /\ CategorizerIdle /\ ServiceIdle

ParseCsv == IsCsvUpload /\ CallParseCsvBytes

ExtractPdf ==
    /\ IsPdfUpload
    /\ Returns("PDFTransactionExtractor.extract",
               PDFTransactionExtractor_extract(arg.doc, arg.default_year))

StatementNext == ParseCsv \/ ExtractPdf

StatementSpec == StatementInit /\ [][StatementNext]_vars

----
\* What is asked of the rows of a parsed statement

ReturnedRows == IF op # "none" /\ ret[1].kind = "return" THEN ret[1].value ELSE <<>>

HasValidDate(row) ==
    row.date # NULL /\ IsValidDate(row.date[1].year, row.date[1].month, row.date[1].day)

HasDescription(row) == row.description \notin {NaN, None, EmptyStr}

HasAmount(row) == row.amount # NULL

\* C16: every row the statement parser returns, from a CSV file of either shape
\* or from a PDF document by either strategy, has a valid date, a non-empty
\* description and a non-null amount
C16_ReturnedRowsComplete ==
    \A i \in 1..Len(ReturnedRows) :
        HasValidDate(ReturnedRows[i]) /\ HasDescription(ReturnedRows[i]) /\ HasAmount(ReturnedRows[i])

\* the file opens with a line that names Date, Description and Amount
HasStandardHeader(lines) ==
    \A key \in {<<"d", "a", "t", "e">>, <<"d", "e", "s", "c", "r", "i", "p", "t", "i", "o", "n">>, <<"a", "m", "o", "u", "n", "t">>} : header_map(lines[1], key) # 0

\* the first page that fails to give its tables, 0 if none does
FirstCrashingPage(pages) ==
    LET crashing == {i \in 1..Len(pages) : pages[i].crashes}
    IN  IF crashing = {} THEN 0 ELSE CHOOSE i \in crashing : \A j \in crashing : i <= j

IsParseFailure(outcome) ==
    /\ outcome.kind = "raise"
    /\ outcome.exception.type = "ValueError"
    /\ outcome.exception.message = UNABLE_TO_PARSE

C17_CrashReported ==
    /\ op = "PDFTransactionExtractor.extract"
    /\ Len(arg.doc.pages) = 2 /\ FirstCrashingPage(arg.doc.pages) = 2
    /\ ret[1] = Raise(ValueError(UNABLE_TO_PARSE, <<TABLES_CRASH>>))

----
\* src/app/categorization.py: the keyword rules

\* one entry of CATEGORIZATION_RULES
Rule(category, keywords) == [category |-> category, keywords |-> keywords]

\* CATEGORIZATION_RULES, in the order of the dict
CATEGORIZATION_RULES ==
    << Rule(<<"G", "r", "o", "c", "e", "r", "i", "e", "s">>, <<<<"s", "u", "p", "e", "r", "m", "a", "r", "k", "e", "t">>, <<"g", "r", "o", "c", "e", "r", "y">>, <<"w", "a", "l", "-", "m", "a", "r", "t">>, <<"c", "o", "s", "t", "c", "o">>>>),
       Rule(<<"R", "e", "s", "t", "a", "u", "r", "a", "n", "t", "s">>, <<<<"r", "e", "s", "t", "a", "u", "r", "a", "n", "t">>, <<"c", "a", "f", "e">>, <<"f", "o", "o", "d">>, <<"m", "c", "d", "o">>, <<"c", "o", "f", "f", "e", "e">>>>),
       Rule(<<"T", "r", "a", "n", "s", "p", "o", "r", "t", "a", "t", "i", "o", "n">>, <<<<"u", "b", "e", "r">>, <<"t", "a", "x", "i">>, <<"g", "a", "s">>, <<"p", "a", "r", "k", "i", "n", "g">>, <<"l", "y", "f", "t">>>>),
       Rule(<<"S", "h", "o", "p", "p", "i", "n", "g">>, <<<<"a", "m", "z", "n">>, <<"s", "t", "o", "r", "e">>, <<"s", "h", "o", "p">>, <<"o", "u", "t", "l", "e", "t">>, <<"m", "a", "l", "l">>>>),
       Rule(<<"H", "e", "a", "l", "t", "h">>, <<<<"p", "h", "a", "r", "m", "a", "c", "y">>, <<"d", "o", "c", "t", "o", "r">>, <<"h", "o", "s", "p", "i", "t", "a", "l">>, <<"c", "l", "i", "n", "i", "c">>>>),
       Rule(<<"E", "n", "t", "e", "r", "t", "a", "i", "n", "m", "e", "n", "t">>, <<<<"c", "i", "n", "e", "m", "a">>, <<"m", "o", "v", "i", "e", "s">>, <<"c", "o", "n", "c", "e", "r", "t">>, <<"s", "p", "o", "t", "i", "f", "y">>, <<"n", "e", "t", "f", "l", "i", "x">>>>),
       Rule(<<"U", "t", "i", "l", "i", "t", "i", "e", "s">>, <<<<"e", "l", "e", "c", "t", "r", "i", "c", "i", "t", "y">>, <<"w", "a", "t", "e", "r">>, <<"i", "n", "t", "e", "r", "n", "e", "t">>, <<"p", "h", "o", "n", "e">>, <<"h", "y", "d", "r", "o">>>>),
       Rule(<<"R", "e", "n", "t">>, <<<<"r", "e", "n", "t">>>>),
       Rule(<<"I", "n", "c", "o", "m", "e">>, <<<<"s", "a", "l", "a", "r", "y">>, <<"p", "a", "y", "r", "o", "l", "l">>, <<"s", "t", "a", "n", "d", "a", "r", "d", " ", "a", "e", "r", "o">>, <<"p", "a", "y", "c", "h", "e", "q", "u", "e">>>>),
       Rule(<<"I", "n", "v", "e", "s", "t", "m", "e", "n", "t">>, <<<<"b", "r", "o", "k", "e", "r", "a", "g", "e">>, <<"i", "n", "v", "e", "s", "t", "m", "e", "n", "t", "s">>, <<"i", "n", "v", "e", "s", "t", "m", "e", "n", "t">>, <<"i", "n", "v">>, <<"p", "p", "p">>, <<"t", "f", "s", "a">>, <<"r", "r", "s", "p">>>>),
       Rule(<<"C", "r", "e", "d", "i", "t", " ", "P", "a", "y", "m", "e", "n", "t">>, <<<<"p", "a", "y", "m", "e", "n", "t">>, <<"t", "h", "a", "n", "k">>, <<"y", "o", "u">>, <<"r", "e", "c", "e", "i", "v", "e", "d">>>>) >>

\* any(keyword in lowered for keyword in keywords)
any_keyword_in(keywords, lowered) ==
    \E k \in 1..Len(keywords) : contains(lowered, keywords[k])

\* a slip _fallback_rule could have: the last category with a keyword wins
_fallback_rule_last_match(description) ==
    LET lowered == lower(or_else(description, EmptyStr))
        hits == {i \in 1..Len(CATEGORIZATION_RULES) :
                    any_keyword_in(CATEGORIZATION_RULES[i].keywords, lowered)}
    IN  IF hits = {} THEN None
        ELSE CATEGORIZATION_RULES[CHOOSE i \in hits : \A j \in hits : j <= i].category

\* _fallback_rule: the category, or None
_fallback_rule(description) ==
    LET lowered == lower(or_else(description, EmptyStr))
        hits == {i \in 1..Len(CATEGORIZATION_RULES) :
                    any_keyword_in(CATEGORIZATION_RULES[i].keywords, lowered)}
    IN  IF hits = {} THEN None
        ELSE CATEGORIZATION_RULES[CHOOSE i \in hits : \A j \in hits : i <= j].category

----
\* One call of _fallback_rule (RuleSpec); arg is the description.

\* a description holds at most MaxWords words
MaxWords == 3

Words ==
    { <<"g", "r", "o", "c", "e", "r", "y">>, <<"s", "t", "o", "r", "e">>, <<"p", "a", "y", "m", "e", "n", "t">>, <<"U", "B", "E", "R">>, <<"c", "u", "r", "r", "e", "n", "t">>, <<"V", "e", "g", "a", "s">>, <<"i", "n", "v", "o", "i", "c", "e">>,
      <<"S", "a", "l", "a", "r", "y">>, <<"n", "e", "t", "f", "l", "i", "x">>, <<"m", "i", "s", "c">> }

\* the descriptions of 1..n words, a space between them
RECURSIVE Phrases(_)
Phrases(n) ==
    IF n = 0 THEN {}
    ELSE LET shorter == Phrases(n - 1)
         IN  Words \cup shorter \cup {w \o <<" ">> \o p : w \in Words, p \in shorter}

RuleInputs == {None, EmptyStr} \cup Phrases(MaxWords)

RuleInit == arg \in RuleInputs /\ op = "none" /\ ret = <<>> /\ AggIdle /\ WorthIdle /\ CategorizerIdle /\ ServiceIdle

CallFallbackRule == Returns("_fallback_rule", _fallback_rule(arg))

RuleNext == CallFallbackRule

RuleSpec == RuleInit /\ [][RuleNext]_vars

\* the categories in the order of the table
TableOrder ==
    << <<"G", "r", "o", "c", "e", "r", "i", "e", "s">>, <<"R", "e", "s", "t", "a", "u", "r", "a", "n", "t", "s">>, <<"T", "r", "a", "n", "s", "p", "o", "r", "t", "a", "t", "i", "o", "n">>, <<"S", "h", "o", "p", "p", "i", "n", "g">>, <<"H", "e", "a", "l", "t", "h">>,
       <<"E", "n", "t", "e", "r", "t", "a", "i", "n", "m", "e", "n", "t">>, <<"U", "t", "i", "l", "i", "t", "i", "e", "s">>, <<"R", "e", "n", "t">>, <<"I", "n", "c", "o", "m", "e">>, <<"I", "n", "v", "e", "s", "t", "m", "e", "n", "t">>, <<"C", "r", "e", "d", "i", "t", " ", "P", "a", "y", "m", "e", "n", "t">> >>

\* the keywords of a category
KeywordsOf(category) ==
    LET rule == CHOOSE r \in {CATEGORIZATION_RULES[i] : i \in 1..Len(CATEGORIZATION_RULES)} :
                    r.category = category
    IN  {rule.keywords[k] : k \in 1..Len(rule.keywords)}

\* a keyword of the category occurs in the lowercased description
Occurs(category, description) ==
    \E keyword \in KeywordsOf(category) :
        contains(lower(IF description = None THEN EmptyStr ELSE description), keyword)

\* C18: the keyword fallback returns the first category of the table order one
\* of whose keywords is a substring of the lowercased description, and None when
\* no keyword of any category occurs; 'grocery store payment' gives Groceries
C18_FirstMatchInTableOrder ==
    op = "_fallback_rule" =>
        /\ (\A i \in 1..Len(TableOrder) : ~Occurs(TableOrder[i], arg)) => ret[1] = None
        /\ \A i \in 1..Len(TableOrder) :
              (Occurs(TableOrder[i], arg) /\ \A j \in 1..(i - 1) : ~Occurs(TableOrder[j], arg))
                  => ret[1] = TableOrder[i]
        /\ arg = <<"g", "r", "o", "c", "e", "r", "y", " ", "s", "t", "o", "r", "e", " ", "p", "a", "y", "m", "e", "n", "t">> => ret[1] = <<"G", "r", "o", "c", "e", "r", "i", "e", "s">>

\* a description with keywords of three categories has been categorized
C18_Witness ==
    /\ op = "_fallback_rule"
    /\ arg = <<"g", "r", "o", "c", "e", "r", "y", " ", "s", "t", "o", "r", "e", " ", "p", "a", "y", "m", "e", "n", "t">>
    /\ Occurs(<<"S", "h", "o", "p", "p", "i", "n", "g">>, arg) /\ Occurs(<<"C", "r", "e", "d", "i", "t", " ", "P", "a", "y", "m", "e", "n", "t">>, arg)
    /\ ret[1] = <<"G", "r", "o", "c", "e", "r", "i", "e", "s">>

----
\* src/app/categorization.py: SmartCategorizer.  A probability is counted in
\* thousandths.  A bundle is [labels, classes, fitted_on]: the labels it stores,
\* the classes of its classifier, and the samples its vectorizers and classifier
\* were fitted on.

\* AUTO_APPLY_THRESHOLD = 0.58
AUTO_APPLY_THRESHOLD == 580

PredictionResult(category, confidence, source, top_categories, normalized_description) ==
    [category |-> category, confidence |-> confidence, source |-> source,
     top_categories |-> top_categories, normalized_description |-> normalized_description]

\* how many entries of probs come before entry i in np.argsort(probs)[::-1]: the
\* larger ones, and of the equal ones those at a later position
rank_of(probs, i) ==
    Cardinality({j \in 1..Len(probs) : probs[j] > probs[i] \/ (probs[j] = probs[i] /\ j > i)})

\* np.argsort(probs)[::-1], positions counted from 1
argsort_descending(probs) ==
    [r \in 1..Len(probs) |-> CHOOSE i \in 1..Len(probs) : rank_of(probs, i) = r - 1]

\* s[:n]
first_n(s, n) == SubSeq(s, 1, IF Len(s) < n THEN Len(s) ELSE n)

\* a slip predict could have: a confidence equal to the threshold is not enough
predict_above_threshold(loaded, description, probs, threshold) ==
    LET normalized == _normalize_text(description)
        labels == loaded[1].labels
        top_indices == argsort_descending(probs)
        top == [r \in 1..Len(first_n(top_indices, 5)) |-> <<labels[top_indices[r]], probs[top_indices[r]]>>]
        best_label == top[1][1]
        best_conf == top[1][2]
    IN  IF loaded = <<>> THEN PredictionResult(None, <<>>, "none", <<>>, normalized)
        ELSE IF Len(probs) # Len(labels) THEN PredictionResult(None, <<>>, "none", <<>>, normalized)
        ELSE PredictionResult(IF best_conf > threshold THEN best_label ELSE None,
                              <<best_conf>>,
                              IF best_conf > threshold THEN "model" ELSE "model_unconfident",
                              top, normalized)

\* SmartCategorizer.predict with self._bundle = loaded, where probs is what
\* predict_proba gives for the description
predict(loaded, description, probs, threshold) ==
    LET normalized == _normalize_text(description)
        labels == loaded[1].labels
        top_indices == argsort_descending(probs)
        top == [r \in 1..Len(first_n(top_indices, 5)) |-> <<labels[top_indices[r]], probs[top_indices[r]]>>]
        best_label == top[1][1]
        best_conf == top[1][2]
    IN  IF loaded = <<>> THEN PredictionResult(None, <<>>, "none", <<>>, normalized)
        ELSE IF Len(probs) # Len(labels) THEN PredictionResult(None, <<>>, "none", <<>>, normalized)
        ELSE PredictionResult(IF best_conf >= threshold THEN best_label ELSE None,
                              <<best_conf>>,
                              IF best_conf >= threshold THEN "model" ELSE "model_unconfident",
                              top, normalized)

TrainingExample(description, category) == [description |-> description, category |-> category]

TrainReport(trained, samples, labels, accuracy, macro_f1, heldout_samples, saved_to) ==
    [trained |-> trained, samples |-> samples, labels |-> labels, accuracy |-> accuracy,
     macro_f1 |-> macro_f1, heldout_samples |-> heldout_samples, saved_to |-> saved_to]

ModelBundle(labels, classes, fitted_on) ==
    [labels |-> labels, classes |-> classes, fitted_on |-> fitted_on]

\* the characters of the category labels in the order of their code points
CodePointOrder == <<" ">> \o UpperChars \o LowerChars

code_point_rank(c) == CHOOSE i \in 1..Len(CodePointOrder) : CodePointOrder[i] = c

\* s < t on str
RECURSIVE str_less(_, _)
str_less(s, t) ==
    IF t = <<>> THEN FALSE
    ELSE IF s = <<>> THEN TRUE
    ELSE IF Head(s) = Head(t) THEN str_less(Tail(s), Tail(t))
    ELSE code_point_rank(Head(s)) < code_point_rank(Head(t))

\* clf.classes_: the distinct labels, sorted
classes_(labels) ==
    LET unique_labels == {labels[i] : i \in 1..Len(labels)}
    IN  [r \in 1..Cardinality(unique_labels) |->
            CHOOSE c \in unique_labels :
                Cardinality({d \in unique_labels : str_less(d, c)}) = r - 1]

\* max(a, b)
max(a, b) == IF a >= b THEN a ELSE b

\* int(round(num_samples * 0.2)) for a count of samples: the nearest integer to
\* a fifth of it (no count has a fifth that ends in .5)
round_fifth(num_samples) == (2 * num_samples + 5) \div 10

MODEL_PATH == <<"a", "r", "t", "i", "f", "a", "c", "t", "s", "/", "c", "a", "t", "e", "g", "o", "r", "i", "z", "e", "r", ".", "j", "o", "b", "l", "i", "b">>

\* a slip train could have: the held-out split is taken whatever the size of the
\* smallest class
train_any_class_size(loaded, persisted, samples, fits, metrics) ==
    LET labels == [i \in 1..Len(samples) |-> samples[i].category]
        num_classes == Cardinality({labels[i] : i \in 1..Len(labels)})
        num_samples == Len(samples)
        holdout == /\ num_classes # 1
                   /\ num_samples >= max(30, num_classes * 5)
                   /\ max(1, round_fifth(num_samples)) >= num_classes
        new_bundle == ModelBundle(classes_(labels), classes_(labels), samples)
    IN  IF samples = <<>>
        THEN [outcome |-> Return(TrainReport(FALSE, 0, <<>>, <<>>, <<>>, 0, None)),
              bundle |-> loaded, model_file |-> persisted]
        ELSE IF ~fits
        THEN [outcome |-> Raise("ValueError"), bundle |-> loaded, model_file |-> persisted]
        ELSE [outcome |-> Return(TrainReport(TRUE, Len(samples), new_bundle.labels,
                                              IF holdout THEN <<metrics.accuracy>> ELSE <<>>,
                                              IF holdout THEN <<metrics.macro_f1>> ELSE <<>>,
                                              IF holdout THEN (num_samples + 4) \div 5 ELSE 0,
                                              MODEL_PATH)),
              bundle |-> <<new_bundle>>, model_file |-> <<new_bundle>>]

\* a slip train could have: a call without samples unloads the bundle
train_assigns_before_dump(loaded, persisted, samples, fits, metrics) ==
    LET new_bundle == ModelBundle(classes_([i \in 1..Len(samples) |-> samples[i].category]),
                                  classes_([i \in 1..Len(samples) |-> samples[i].category]),
                                  samples)
    IN  IF samples = <<>>
        THEN [outcome |-> Return(TrainReport(FALSE, 0, <<>>, <<>>, <<>>, 0, None)),
              bundle |-> loaded, model_file |-> persisted]
        ELSE IF ~fits
        THEN [outcome |-> Raise("ValueError"), bundle |-> <<new_bundle>>, model_file |-> persisted]
        ELSE [outcome |-> Return(TrainReport(TRUE, Len(samples), new_bundle.labels,
                                              <<>>, <<>>, 0, MODEL_PATH)),
              bundle |-> <<new_bundle>>, model_file |-> <<new_bundle>>]

train_unloads_bundle(loaded, persisted, samples, fits, metrics) ==
    LET new_bundle == ModelBundle(classes_([i \in 1..Len(samples) |-> samples[i].category]),
                                  classes_([i \in 1..Len(samples) |-> samples[i].category]),
                                  samples)
    IN  IF samples = <<>>
        THEN [outcome |-> Return(TrainReport(FALSE, 0, <<>>, <<>>, <<>>, 0, None)),
              bundle |-> <<>>, model_file |-> persisted]
        ELSE IF ~fits
        THEN [outcome |-> Raise("ValueError"), bundle |-> loaded, model_file |-> persisted]
        ELSE [outcome |-> Return(TrainReport(TRUE, Len(samples), new_bundle.labels,
                                              <<>>, <<>>, 0, MODEL_PATH)),
              bundle |-> <<new_bundle>>, model_file |-> <<new_bundle>>]

\* SmartCategorizer.train with self._bundle = loaded and persisted the content of
\* the model file, where fits tells whether the fitting and the dump raise
\* nothing and metrics is what the scores on the held-out samples come to:
\* [outcome, bundle, model_file] after the call
train(loaded, persisted, samples, fits, metrics) ==
    LET labels == [i \in 1..Len(samples) |-> samples[i].category]
        unique_labels == {labels[i] : i \in 1..Len(labels)}
        label_count(label) == Cardinality({i \in 1..Len(labels) : labels[i] = label})
        min_class_size == CHOOSE n \in {label_count(l) : l \in unique_labels} :
                              \A l \in unique_labels : n <= label_count(l)
        num_classes == Cardinality(unique_labels)
        num_samples == Len(samples)
        desired_test_size == max(1, round_fifth(num_samples))
        holdout == /\ num_classes # 1
                   /\ num_samples >= max(30, num_classes * 5)
                   /\ min_class_size >= 2
                   /\ desired_test_size >= num_classes
        new_bundle == ModelBundle(classes_(labels), classes_(labels), samples)
    IN  IF samples = <<>>
        THEN [outcome |-> Return(TrainReport(FALSE, 0, <<>>, <<>>, <<>>, 0, None)),
              bundle |-> loaded, model_file |-> persisted]
        ELSE IF ~fits
        THEN [outcome |-> Raise("ValueError"), bundle |-> loaded, model_file |-> persisted]
        ELSE [outcome |-> Return(TrainReport(TRUE, Len(samples), new_bundle.labels,
                                              IF holdout THEN <<metrics.accuracy>> ELSE <<>>,
                                              IF holdout THEN <<metrics.macro_f1>> ELSE <<>>,
                                              IF holdout THEN (num_samples + 4) \div 5 ELSE 0,
                                              MODEL_PATH)),
              bundle |-> <<new_bundle>>, model_file |-> <<new_bundle>>]

\* the samples train_from_transactions builds: the transactions with a category
RECURSIVE samples_of(_)
samples_of(transactions) ==
    IF transactions = <<>> THEN <<>>
    ELSE LET txn == Head(transactions)
         IN  (IF txn.category = None \/ txn.category = EmptyStr THEN <<>>
              ELSE <<TrainingExample(or_else(txn.description_raw, EmptyStr), txn.category)>>)
                 \o samples_of(Tail(transactions))

\* train_from_transactions
train_from_transactions(loaded, persisted, transactions, fits, metrics) ==
    train(loaded, persisted, samples_of(transactions), fits, metrics)

----
\* The categorizer over a sequence of calls (CategorizerSpec): arg is the
\* arguments of the last call, op its name, ret its outcome.

\* a training call is given at most MaxTxns transactions
MaxTxns == 2

Txn(description_raw, category) == [description_raw |-> description_raw, category |-> category]

Transactions ==
    { Txn(<<"C", "O", "F", "F", "E", "E", " ", "1", "2">>, None), Txn(None, EmptyStr),
      Txn(<<"C", "O", "F", "F", "E", "E", " ", "1", "2">>, <<"R", "e", "s", "t", "a", "u", "r", "a", "n", "t", "s">>),
      Txn(None, <<"R", "e", "n", "t">>) }

TransactionLists == {<<>>} \cup SeqsUpTo(Transactions, MaxTxns)

Metrics == {[accuracy |-> 900, macro_f1 |-> 850]}

\* a bundle an earlier process trained and persisted, with six labels
SixTransactions ==
    << Txn(<<"C", "O", "F", "F", "E", "E", " ", "1", "2">>, <<"R", "e", "s", "t", "a", "u", "r", "a", "n", "t", "s">>), Txn(<<"R", "E", "N", "T">>, <<"R", "e", "n", "t">>), Txn(<<"U", "B", "E", "R">>, <<"T", "r", "a", "n", "s", "p", "o", "r", "t", "a", "t", "i", "o", "n">>),
       Txn(<<"P", "A", "Y", "R", "O", "L", "L">>, <<"I", "n", "c", "o", "m", "e">>), Txn(<<"C", "O", "S", "T", "C", "O">>, <<"G", "r", "o", "c", "e", "r", "i", "e", "s">>), Txn(<<"H", "Y", "D", "R", "O">>, <<"U", "t", "i", "l", "i", "t", "i", "e", "s">>) >>

PersistedBundle ==
    train_from_transactions(<<>>, <<>>, SixTransactions, TRUE,
                            [accuracy |-> 900, macro_f1 |-> 850]).model_file

\* the probabilities of n labels: the first is top, the others are unequal and
\* the sum is one
Distribution(n, top) ==
    [k \in 1..n |->
        IF k = 1 THEN top
        ELSE IF k < n THEN 10 * (n - k + 1)
        ELSE 1000 - top - 5 * (n * (n - 1) - 2)]

\* v with its entries moved round by shift places
Rotation(v, shift) == [i \in 1..Len(v) |-> v[((i + shift - 1) % Len(v)) + 1]]

TopProbabilities == {400, 579, 580}

\* what predict_proba may give for n classes
ProbVectors(n) ==
    IF n = 0 THEN {<<>>}
    ELSE IF n = 1 THEN {<<1000>>}
    ELSE {Rotation(Distribution(n, top), shift) : top \in TopProbabilities, shift \in 0..(n - 1)}

PredictDescriptions == {None, <<"C", "O", "F", "F", "E", "E", " ", "1", "2", ";", "a">>}

\* SmartCategorizer.__init__: the bundle of the model file, if there is one, is
\* loaded
CategorizerInit ==
    /\ model_file \in {<<>>, PersistedBundle}
    /\ bundle = model_file
    /\ arg = <<>> /\ op = "none" /\ ret = <<>>
    /\ AggIdle /\ WorthIdle /\ ServiceIdle

CallPredict ==
    \E description \in PredictDescriptions :
        \E probs \in ProbVectors(IF bundle = <<>> THEN 0 ELSE Len(bundle[1].classes)) :
            /\ arg' = [description |-> description, probs |-> probs]
            /\ op' = "predict"
            /\ ret' = <<Return(predict(bundle, description, probs, AUTO_APPLY_THRESHOLD))>>
            /\ UNCHANGED <<categorizerVars, aggVars, worthVars, serviceVars>>

CallTrainFromTransactions ==
    \E transactions \in TransactionLists, fits \in BOOLEAN, metrics \in Metrics :
        LET after == train_from_transactions(bundle, model_file, transactions, fits, metrics)
        IN  /\ arg' = [transactions |-> transactions]
            /\ op' = "train_from_transactions"
            /\ ret' = <<after.outcome>>
            /\ bundle' = after.bundle
            /\ model_file' = after.model_file
            /\ UNCHANGED <<aggVars, worthVars, serviceVars>>

\* SmartCategorizer.status with self._bundle = loaded (trained_at, the time of
\* the build, is not part of the bundle here and is left out of the dict)
status(loaded) ==
    IF loaded = <<>>
    THEN [trained |-> FALSE, labels |-> <<>>, model_path |-> None]
    ELSE [trained |-> TRUE, labels |-> loaded[1].labels, model_path |-> MODEL_PATH]

CallStatus ==
    /\ arg' = <<>>
    /\ op' = "status"
    /\ ret' = <<Return(status(bundle))>>
    /\ UNCHANGED <<categorizerVars, aggVars, worthVars, serviceVars>>

CategorizerNext == CallPredict \/ CallTrainFromTransactions \/ CallStatus

CategorizerSpec == CategorizerInit /\ [][CategorizerNext]_vars

----
\* What is asked of predictions and of training without samples

IsLoaded == bundle # <<>>

\* the largest of the probabilities of the last predict call
TopProbability == CHOOSE p \in {arg.probs[i] : i \in 1..Len(arg.probs)} :
                      \A i \in 1..Len(arg.probs) : arg.probs[i] <= p

\* the label the classifier gives the largest probability
TopLabel == bundle[1].labels[CHOOSE i \in 1..Len(arg.probs) : arg.probs[i] = TopProbability]

\* ranking lists the (at most five) most probable labels of the bundle with their
\* probabilities, the more probable first
IsRanking(ranking) ==
    LET labels == bundle[1].labels
        listed == {k \in 1..Len(labels) : \E r \in 1..Len(ranking) : ranking[r] = <<labels[k], arg.probs[k]>>}
    IN  /\ Len(ranking) = (IF Len(labels) < 5 THEN Len(labels) ELSE 5)
        /\ Cardinality(listed) = Len(ranking)
        /\ \A r \in 1..(Len(ranking) - 1) : ranking[r][2] >= ranking[r + 1][2]
        /\ \A k \in (1..Len(labels)) \ listed : \A r \in 1..Len(ranking) : arg.probs[k] <= ranking[r][2]

\* C19: predict returns a category if and only if a bundle is loaded and the
\* highest label probability is at least the threshold 0.58; the category is then
\* the most probable label and the source is 'model'.  With no bundle the result
\* is no category, source 'none' and an empty ranking; with a bundle and a top
\* probability below the threshold it is no category, source 'model_unconfident'
\* and the ranking of at most five labels in descending probability
C19_PredictThreshold ==
    op = "predict" =>
        LET result == ret[1].value
        IN  /\ ret[1].kind = "return"
            /\ result.category # None <=> (IsLoaded /\ TopProbability >= 580)
            /\ IsLoaded /\ TopProbability >= 580 =>
                  result.category = TopLabel /\ result.source = "model"
            /\ ~IsLoaded =>
                  result.category = None /\ result.source = "none" /\ result.top_categories = <<>>
            /\ IsLoaded /\ TopProbability < 580 =>
                  /\ result.category = None
                  /\ result.source = "model_unconfident"
                  /\ IsRanking(result.top_categories)

\* a bundle of six labels has answered with a top probability equal to the
\* threshold
C19_Witness ==
    /\ op = "predict"
    /\ IsLoaded /\ Len(bundle[1].labels) = 6
    /\ TopProbability = 580
    /\ ret[1].value.category = TopLabel
    /\ ret[1].value.source = "model"
    /\ Len(ret[1].value.top_categories) = 5

\* the transactions of the last training call that have a category
Categorized(transactions) ==
    {i \in 1..Len(transactions) : transactions[i].category \notin {None, EmptyStr}}

\* C20: training with an empty sample set, also when every transaction supplied
\* lacks a category, raises no error, returns a report with trained = false, no
\* samples, no labels and no persisted location, and leaves the loaded bundle and
\* the persisted bundle as they were, so that predictions are answered as before
C20_EmptyTrainingChangesNothing ==
    [][ (op' = "train_from_transactions" /\ Categorized(arg'.transactions) = {}) =>
            /\ ret'[1] = Return(TrainReport(FALSE, 0, <<>>, <<>>, <<>>, 0, None))
            /\ bundle' = bundle
            /\ model_file' = model_file
            /\ IsLoaded =>
                  predict(bundle', None, Distribution(Len(bundle[1].classes), 580), AUTO_APPLY_THRESHOLD)
                      = predict(bundle, None, Distribution(Len(bundle[1].classes), 580), AUTO_APPLY_THRESHOLD)
      ]_vars

\* a trained categorizer has been given transactions none of which has a category
C20_Witness ==
    /\ op = "train_from_transactions"
    /\ arg.transactions # <<>> /\ Categorized(arg.transactions) = {}
    /\ ret[1].kind = "return" /\ ~ret[1].value.trained
    /\ IsLoaded /\ model_file = bundle

----
\* One call of SmartCategorizer.train on a large sample set (TrainSpec); arg is
\* [samples].

\* a class of the sample set holds at most MaxClassSize samples
MaxClassSize == 30

ClassSizes == {0, 1, 2, 5, 14, 15, MaxClassSize - 2, MaxClassSize - 1, MaxClassSize}

SampleLabels == <<<<"R", "e", "s", "t", "a", "u", "r", "a", "n", "t", "s">>, <<"R", "e", "n", "t">>, <<"I", "n", "c", "o", "m", "e">>>>

\* the samples of a training set with sizes[c] samples of the label SampleLabels[c]
RECURSIVE SamplesOfSizes(_, _)
SamplesOfSizes(sizes, c) ==
    IF c > Len(SampleLabels) THEN <<>>
    ELSE [i \in 1..sizes[c] |-> TrainingExample(<<"C", "O", "F", "F", "E", "E", " ", "1", "2">>, SampleLabels[c])]
             \o SamplesOfSizes(sizes, c + 1)

SampleSets ==
    {SamplesOfSizes(sizes, 1) : sizes \in [1..Len(SampleLabels) -> ClassSizes]} \ {<<>>}

TrainInit ==
    /\ arg \in [samples : SampleSets]
    /\ op = "none" /\ ret = <<>>
    /\ bundle = <<>> /\ model_file = <<>>
    /\ AggIdle /\ WorthIdle /\ ServiceIdle

CallTrain ==
    \E fits \in BOOLEAN, metrics \in Metrics :
        LET after == train(bundle, model_file, arg.samples, fits, metrics)
        IN  /\ op = "none"
            /\ op' = "train"
            /\ ret' = <<after.outcome>>
            /\ bundle' = after.bundle
            /\ model_file' = after.model_file
            /\ UNCHANGED <<arg, aggVars, worthVars, serviceVars>>

TrainNext == CallTrain

TrainSpec == TrainInit /\ [][TrainNext]_vars

\* the samples of the call that carry the label
SamplesLabelled(label) == {i \in 1..Len(arg.samples) : arg.samples[i].category = label}

\* the labels of the samples of the call
LabelsTrained == {arg.samples[i].category : i \in 1..Len(arg.samples)}

\* a fifth of n, rounded to the nearest integer, at least 1
HoldoutSize(n) ==
    LET nearest == CHOOSE q \in 0..n : 10 * q - 5 < 2 * n /\ 2 * n < 10 * q + 5
    IN  IF nearest < 1 THEN 1 ELSE nearest

\* the sample set of the call is large and balanced enough for a held-out split
AllowsHoldout ==
    LET classes == Cardinality(LabelsTrained)
        floor == IF 5 * classes > 30 THEN 5 * classes ELSE 30
    IN  /\ classes >= 2
        /\ Len(arg.samples) >= floor
        /\ \A label \in LabelsTrained : Cardinality(SamplesLabelled(label)) >= 2
        /\ HoldoutSize(Len(arg.samples)) >= classes

C21_SingleLabel ==
    /\ op = "train" /\ ret[1].kind = "return"
    /\ Len(arg.samples) = 5 /\ Cardinality(LabelsTrained) = 1
    /\ ret[1].value.trained /\ ret[1].value.accuracy = <<>> /\ ret[1].value.heldout_samples = 0

\* ---------------------------------------------------------------------------
\* The override store (category_overrides.py): a JSON object at OVERRIDES_PATH
\* that maps normalized descriptions to categories, read and written under the
\* module-level _LOCK by the threads of one process.
\*
\* A dict is a function from its keys; the file is absent, holds a document,
\* or has been opened for writing and not written yet (write_text truncates
\* before it writes), in which state json.loads raises JSONDecodeError.
\* ---------------------------------------------------------------------------

EmptyDict == [key \in {} |-> None]
dict_get(dict, key) == IF key \in DOMAIN dict THEN dict[key] ELSE None
dict_set(dict, key, value) == [k \in (DOMAIN dict) \cup {key} |-> IF k = key THEN value ELSE dict[k]]
dict_pop(dict, key) == [k \in (DOMAIN dict) \ {key} |-> dict[k]]

AbsentFile == [kind |-> "absent"]
TruncatedFile == [kind |-> "truncated"]
JsonFile(data) == [kind |-> "document", data |-> data]

_load(file) == IF file.kind = "document" THEN file.data ELSE EmptyDict

\* the dict record_override saves: the loaded one with the key set or popped
record_override_forgets_others(overrides, normalized, category) ==
    IF category # None /\ category # EmptyStr
    THEN dict_set(EmptyDict, normalized, category)
    ELSE EmptyDict

record_override_update(overrides, normalized, category) ==
    IF category # None /\ category # EmptyStr
    THEN dict_set(overrides, normalized, category)
    ELSE dict_pop(overrides, normalized)

Threads == {1, 2}

OverrideDescriptions == {None, <<"P", "O", "S", " ", "1", "2">>, <<"U", "b", "e", "r">>, <<"P", "O", "S", " ", "U", "b", "e", "r", " ", "1", "2", "3", "4">>, <<"R", "e", "n", "t">>}
OverrideCategories == {None, EmptyStr, <<"T", "r", "a", "v", "e", "l">>, <<"H", "o", "u", "s", "i", "n", "g">>}

\* a thread: the call it runs or has returned from, its position in it, its
\* locals (dropped when the call returns) and the value the call returned
Thread(call, pc, normalized, category) == [call |-> call, pc |-> pc, normalized |-> normalized, category |-> category, overrides |-> EmptyDict, result |-> None]
IdleThread == Thread("none", "idle", EmptyStr, None)

OverrideInit ==
    /\ overrides_file = AbsentFile
    /\ lock = NULL
    /\ threads = [t \in Threads |-> IdleThread]
    /\ recorded = <<>>
    /\ CallIdle /\ AggIdle /\ WorthIdle /\ CategorizerIdle /\ SwapIdle /\ StoreIdle

OverrideUnchanged == UNCHANGED <<callVars, aggVars, worthVars, categorizerVars, swapVars, storeVars>>

\* lookup_override, lines 34-36: normalize, return None for an empty key
CallLookupOverride(t) ==
    \E description \in OverrideDescriptions \ {None} :
        LET normalized == normalize_description(description)
        IN  /\ threads[t].pc = "idle"
            /\ threads' = [threads EXCEPT ![t] = Thread("lookup_override", IF normalized = EmptyStr THEN "idle" ELSE "acquire", normalized, None)]
            /\ UNCHANGED <<overrides_file, lock, recorded>>
            /\ OverrideUnchanged

\* record_override, lines 43-45
CallRecordOverride(t) ==
    \E description \in OverrideDescriptions, category \in OverrideCategories :
        LET normalized == normalize_description(or_else(description, EmptyStr))
        IN  /\ threads[t].pc = "idle"
            /\ threads' = [threads EXCEPT ![t] = Thread("record_override", IF normalized = EmptyStr THEN "idle" ELSE "acquire", normalized, IF normalized = EmptyStr THEN None ELSE category)]
            /\ UNCHANGED <<overrides_file, lock, recorded>>
            /\ OverrideUnchanged

\* with _LOCK: entering blocks until no thread holds the lock
Acquire_without_lock(t) ==
    /\ threads[t].pc = "acquire"
    /\ threads' = [threads EXCEPT ![t].pc = "load"]
    /\ recorded' = IF threads[t].call = "record_override" THEN dict_set(recorded, threads[t].normalized, threads[t].category) ELSE recorded
    /\ UNCHANGED <<overrides_file, lock>>
    /\ OverrideUnchanged

Acquire(t) ==
    /\ threads[t].pc = "acquire"
    /\ lock = NULL
    /\ lock' = <<t>>
    /\ threads' = [threads EXCEPT ![t].pc = "load"]
    /\ recorded' = IF threads[t].call = "record_override" THEN dict_set(recorded, threads[t].normalized, threads[t].category) ELSE recorded
    /\ UNCHANGED overrides_file
    /\ OverrideUnchanged

\* overrides = _load(); lookup_override then returns overrides.get(normalized),
\* record_override sets or pops its key
Load(t) ==
    LET overrides == _load(overrides_file)
    IN  /\ threads[t].pc = "load"
        /\ threads' = [threads EXCEPT ![t] =
               IF threads[t].call = "lookup_override"
               THEN [@ EXCEPT !.pc = "release", !.overrides = overrides, !.result = dict_get(overrides, threads[t].normalized)]
               ELSE [@ EXCEPT !.pc = "open", !.overrides = record_override_update(overrides, threads[t].normalized, threads[t].category)]]
        /\ UNCHANGED <<overrides_file, lock, recorded>>
        /\ OverrideUnchanged

\* _save: write_text opens the file for writing, which empties it ...
SaveOpen(t) ==
    /\ threads[t].pc = "open"
    /\ overrides_file' = TruncatedFile
    /\ threads' = [threads EXCEPT ![t].pc = "write"]
    /\ UNCHANGED <<lock, recorded>>
    /\ OverrideUnchanged

\* ... and then writes the dumped document
SaveWrite(t) ==
    /\ threads[t].pc = "write"
    /\ overrides_file' = JsonFile(threads[t].overrides)
    /\ threads' = [threads EXCEPT ![t].pc = "release"]
    /\ UNCHANGED <<lock, recorded>>
    /\ OverrideUnchanged

\* leaving the with block releases the lock; the call returns
Release(t) ==
    /\ threads[t].pc = "release"
    /\ lock' = IF lock = <<t>> THEN NULL ELSE lock
    /\ threads' = [threads EXCEPT ![t] = [@ EXCEPT !.pc = "idle", !.category = None, !.overrides = EmptyDict]]
    /\ UNCHANGED <<overrides_file, recorded>>
    /\ OverrideUnchanged

OverrideNext ==
    \E t \in Threads :
        \/ CallLookupOverride(t)
        \/ CallRecordOverride(t)
        \/ Acquire(t)
        \/ Load(t)
        \/ SaveOpen(t)
        \/ SaveWrite(t)
        \/ Release(t)

OverrideSpec == OverrideInit /\ [][OverrideNext]_vars

OverrideKeys == {normalize_description(or_else(description, EmptyStr)) : description \in OverrideDescriptions}

\* recorded maps a key to the category given by the most recent record_override
\* for it; what a lookup is to return for the key: that category, None when
\* there was no call for the key or the call gave no category
LatestRecorded(calls, key) ==
    IF key \notin DOMAIN calls \/ calls[key] = EmptyStr THEN None ELSE calls[key]

LooksUp(t) == threads[t].call = "lookup_override" /\ threads[t].pc = "load" /\ threads'[t].pc = "release"
Returned(t) == threads[t].pc = "idle" /\ threads[t].call # "none"

\* C22: lookup_override(d) returns the category of the most recent
\* record_override whose description normalizes like d, and None when there
\* was none or it gave a None or empty category; a description that
\* normalizes to the empty string is never stored and looks up as None; and a
\* record_override for one key leaves the entries of every other key as they
\* were loaded.
C22_LookupReturnsLatest ==
    /\ [][\A t \in Threads : LooksUp(t) => threads'[t].result = LatestRecorded(recorded, threads[t].normalized)]_vars
    /\ [](\A t \in Threads : (Returned(t) /\ threads[t].normalized = EmptyStr) => threads[t].result = None)
    /\ [](EmptyStr \notin DOMAIN _load(overrides_file) /\ EmptyStr \notin DOMAIN recorded)
    /\ [][\A t \in Threads : (threads[t].pc = "load" /\ threads'[t].pc = "open") =>
            \A key \in OverrideKeys \ {threads[t].normalized} :
                dict_get(threads'[t].overrides, key) = dict_get(_load(overrides_file), key)]_vars

\* a lookup of a description that normalizes to "uber" returns the category
\* last recorded for that key, with an entry for another key in the store
C22_Witness ==
    \E t \in Threads :
        /\ Returned(t) /\ threads[t].call = "lookup_override"
        /\ threads[t].normalized = <<"u", "b", "e", "r">>
        /\ threads[t].result = <<"T", "r", "a", "v", "e", "l">>
        /\ overrides_file = JsonFile(dict_set(dict_set(EmptyDict, <<"r", "e", "n", "t">>, <<"H", "o", "u", "s", "i", "n", "g">>), <<"u", "b", "e", "r">>, <<"T", "r", "a", "v", "e", "l">>))

\* a lookup after the entry was removed by an empty category returns None
C22_Removed ==
    \E t \in Threads :
        /\ Returned(t) /\ threads[t].call = "lookup_override"
        /\ threads[t].normalized = <<"u", "b", "e", "r">> /\ threads[t].result = None
        /\ recorded = dict_set(EmptyDict, <<"u", "b", "e", "r">>, EmptyStr)
        /\ overrides_file = JsonFile(EmptyDict)

InCriticalSection(t) == threads[t].pc \in {"load", "open", "write", "release"}

\* the dict a store with every recorded update applied holds
RecordedDict == [key \in {k \in DOMAIN recorded : recorded[k] # None /\ recorded[k] # EmptyStr} |-> recorded[key]]

\* C23: in every interleaving of record_override and lookup_override calls by
\* the threads of one process no update is lost: when no call is inside its
\* locked section the store holds, for each key, the category of the last
\* record_override that acquired the lock for that key, so updates to
\* distinct keys are all present; and a lookup that reads the store is alone
\* in the locked section and reads a store with every earlier update wholly
\* applied, never one that a writer has opened and not yet written.
C23_NoLostUpdate ==
    /\ (\A t \in Threads : ~InCriticalSection(t)) => (overrides_file.kind # "truncated" /\ _load(overrides_file) = RecordedDict)
    /\ \A t \in Threads :
           (threads[t].call = "lookup_override" /\ InCriticalSection(t)) =>
               /\ \A u \in Threads \ {t} : ~InCriticalSection(u)
               /\ overrides_file.kind # "truncated"
               /\ _load(overrides_file) = RecordedDict

\* two threads have recorded overrides for two keys and both are in the store
C23_Witness ==
    /\ \A t \in Threads : Returned(t) /\ threads[t].call = "record_override"
    /\ threads[1].normalized = <<"r", "e", "n", "t">> /\ threads[2].normalized = <<"u", "b", "e", "r">>
    /\ overrides_file = JsonFile(dict_set(dict_set(EmptyDict, <<"r", "e", "n", "t">>, <<"H", "o", "u", "s", "i", "n", "g">>), <<"u", "b", "e", "r">>, <<"T", "r", "a", "v", "e", "l">>))

\* a lookup waits for the lock while a writer has opened the file
C23_LookupWaits ==
    /\ threads[1].call = "record_override" /\ threads[1].pc = "write"
    /\ overrides_file = TruncatedFile
    /\ threads[2].call = "lookup_override" /\ threads[2].pc = "acquire"
    /\ <<"u", "b", "e", "r">> \in DOMAIN recorded

\* ---------------------------------------------------------------------------
\* A predict call that runs while a train call runs (categorization.py).
\* predict holds no lock and evaluates self._bundle anew at each of its uses
\* (lines 163, 148, 150, 151, 176, 177); train assigns self._bundle once
\* (line 254), after the dump (line 253).  Each evaluation and the assignment
\* is one step.  What predict took from the bundle at each use is kept with
\* the bundle it came from.  One train call runs, beside any number of
\* predict calls one after the other.
\* ---------------------------------------------------------------------------

IdlePredict == [pc |-> "idle", description |-> None, text_vectorizer |-> NULL, meta_vectorizer |-> NULL, classifier |-> NULL, labels |-> NULL, probs |-> <<>>, outcome |-> NULL]
IdleTrain == [pc |-> "idle", built |-> NULL, outcome |-> NULL]

SwapInit ==
    /\ model_file \in {<<>>, PersistedBundle}
    /\ bundle = model_file
    /\ predicting = IdlePredict
    /\ training = IdleTrain
    /\ CallIdle /\ AggIdle /\ WorthIdle /\ OverrideIdle /\ StoreIdle

SwapUnchanged == UNCHANGED <<callVars, aggVars, worthVars, overrideVars, storeVars>>

\* lines 162-170: normalize, and return the "none" result when no bundle is loaded
PredictBegin ==
    \E description \in PredictDescriptions :
        /\ predicting.pc = "idle"
        /\ predicting' = IF bundle = NULL
                         THEN [IdlePredict EXCEPT !.description = description, !.outcome = <<Return(predict(NULL, description, <<>>, AUTO_APPLY_THRESHOLD))>>]
                         ELSE [IdlePredict EXCEPT !.pc = "transform", !.description = description]
        /\ UNCHANGED <<bundle, model_file, training>>
        /\ SwapUnchanged

\* _transform, lines 148-149
TransformBegin ==
    /\ predicting.pc = "transform"
    /\ predicting' = IF bundle = NULL
                     THEN [predicting EXCEPT !.pc = "idle", !.outcome = <<Raise("RuntimeError")>>]
                     ELSE [predicting EXCEPT !.pc = "text"]
    /\ UNCHANGED <<bundle, model_file, training>>
    /\ SwapUnchanged

\* line 150: self._bundle.text_vectorizer.transform(texts)
TransformText ==
    /\ predicting.pc = "text"
    /\ predicting' = [predicting EXCEPT !.pc = "meta", !.text_vectorizer = bundle]
    /\ UNCHANGED <<bundle, model_file, training>>
    /\ SwapUnchanged

\* line 151: self._bundle.meta_vectorizer.transform(metas)
TransformMeta ==
    /\ predicting.pc = "meta"
    /\ predicting' = [predicting EXCEPT !.pc = "classify", !.meta_vectorizer = bundle]
    /\ UNCHANGED <<bundle, model_file, training>>
    /\ SwapUnchanged

\* line 176: self._bundle.classifier.predict_proba(matrix)[0]; a classifier
\* given the matrix of other vectorizers than its own raises when the widths
\* differ, which accepts says they do not
PredictProba ==
    /\ predicting.pc = "classify"
    /\ \E probs \in ProbVectors(Len(bundle[1].classes)), accepts \in BOOLEAN :
        /\ (predicting.text_vectorizer = bundle /\ predicting.meta_vectorizer = bundle) => accepts
        /\ predicting' = IF accepts
                         THEN [predicting EXCEPT !.pc = "labels", !.classifier = bundle, !.probs = probs]
                         ELSE [predicting EXCEPT !.pc = "idle", !.classifier = bundle, !.outcome = <<Raise("ValueError")>>]
        /\ UNCHANGED <<bundle, model_file, training>>
        /\ SwapUnchanged

\* lines 177-196: labels = self._bundle.labels and the result from probs and labels
PredictLabels ==
    /\ predicting.pc = "labels"
    /\ predicting' = [predicting EXCEPT !.pc = "idle", !.labels = bundle,
                          !.outcome = <<Return(predict(bundle, predicting.description, predicting.probs, AUTO_APPLY_THRESHOLD))>>]
    /\ UNCHANGED <<bundle, model_file, training>>
    /\ SwapUnchanged

\* train, lines 198-252: an empty sample set returns at once, a failed fit
\* raises, otherwise the bundle is built
TrainBuild ==
    \E transactions \in TransactionLists, fits \in BOOLEAN, metrics \in Metrics :
        LET after == train_from_transactions(bundle, model_file, transactions, fits, metrics)
            trained == after.outcome.kind = "return" /\ after.outcome.value.trained
        IN  /\ training.pc = "idle"
            /\ training' = [pc |-> IF trained THEN "dump" ELSE "returned", built |-> IF trained THEN after.bundle ELSE NULL, outcome |-> <<after.outcome>>]
            /\ UNCHANGED <<bundle, model_file, predicting>>
            /\ SwapUnchanged

\* line 253: joblib.dump(bundle, self.model_path)
TrainDump ==
    /\ training.pc = "dump"
    /\ model_file' = training.built
    /\ training' = [training EXCEPT !.pc = "assign"]
    /\ UNCHANGED <<bundle, predicting>>
    /\ SwapUnchanged

\* line 254: self._bundle = bundle, and the report is returned
TrainAssign ==
    /\ training.pc = "assign"
    /\ bundle' = training.built
    /\ training' = [training EXCEPT !.pc = "returned", !.built = NULL]
    /\ UNCHANGED <<model_file, predicting>>
    /\ SwapUnchanged

SwapNext ==
    \/ PredictBegin
    \/ TransformBegin
    \/ TransformText
    \/ TransformMeta
    \/ PredictProba
    \/ PredictLabels
    \/ TrainBuild
    \/ TrainDump
    \/ TrainAssign

SwapSpec == SwapInit /\ [][SwapNext]_vars

\* the bundles one predict call has taken its parts from
BundlesUsed == {predicting.text_vectorizer, predicting.meta_vectorizer, predicting.classifier, predicting.labels} \ {NULL}

\* C24: a predict call that runs concurrently with a train call computes its
\* result from one single bundle: its text extractor, metadata extractor,
\* classifier and label set all belong to the old bundle or all to the new
\* one, never to a mixture.
C24_OneBundle == Cardinality(BundlesUsed) <= 1

\* ---------------------------------------------------------------------------
\* The life of the loaded bundle over predict, status and train calls
\* (CategorizerSpec).
\* ---------------------------------------------------------------------------

TrainedNow == op' = "train_from_transactions" /\ ret'[1].kind = "return" /\ ret'[1].value.trained

\* C25: the loaded bundle changes only in a train call with a non-empty
\* sample set, which replaces it wholesale with the bundle built from those
\* samples, the same bundle the model file then holds; predict and status
\* never change it; once a bundle is loaded the categorizer never returns to
\* the untrained state; and after a successful train, status reports
\* trained = true with exactly the labels of that train's report.
C25_BundleLifecycle ==
    /\ [][bundle' # bundle =>
            /\ TrainedNow
            /\ samples_of(arg'.transactions) # <<>>
            /\ bundle' = <<ModelBundle(ret'[1].value.labels, ret'[1].value.labels, samples_of(arg'.transactions))>>
            /\ model_file' = bundle']_vars
    /\ [][op' \in {"predict", "status"} => bundle' = bundle]_vars
    /\ [][bundle # NULL => bundle' # NULL]_vars
    /\ [][TrainedNow => (status(bundle').trained /\ status(bundle').labels = ret'[1].value.labels)]_vars
    /\ [](op = "status" => ret[1].value = status(bundle))

\* status after a train on one Rent sample reports trained with the label Rent
C25_Witness ==
    /\ op = "status"
    /\ bundle # PersistedBundle
    /\ ret[1].value.trained
    /\ ret[1].value.labels = <<<<"R", "e", "n", "t">>>>
    /\ model_file = bundle

\* ---------------------------------------------------------------------------
\* The handlers that write transactions (routers/transactions.py,
\* routers/uploads.py, routers/plaid.py) over the transactions table, the
\* categorizer and the override store.  A stored transaction carries the type
\* of its account; dates, currencies and account balances are left out.
\* ---------------------------------------------------------------------------

StoredTransaction(account_type, description_raw, amount, category) ==
    [account_type |-> account_type, description_raw |-> description_raw, amount |-> amount, category |-> category]

HTTPException(status_code) == [type |-> "HTTPException", status_code |-> status_code]

\* categorize_transaction, where probs is what predict_proba returns
categorize_transaction(loaded, description, probs) ==
    LET prediction == predict(loaded, description, probs, AUTO_APPLY_THRESHOLD)
    IN  IF prediction.category # None /\ prediction.category # EmptyStr
        THEN prediction.category
        ELSE _fallback_rule(description)

\* categorize_with_details
categorize_with_details(loaded, description, probs) ==
    LET prediction == predict(loaded, description, probs, AUTO_APPLY_THRESHOLD)
        fallback == _fallback_rule(description)
    IN  IF prediction.category = None /\ fallback # None /\ fallback # EmptyStr
        THEN PredictionResult(fallback, <<>>, "rules", <<>>, prediction.normalized_description)
        ELSE prediction

\* record_override run by one thread from start to end: the file afterwards
record_override(file, description, category) ==
    LET normalized == normalize_description(or_else(description, EmptyStr))
    IN  IF normalized = EmptyStr THEN file
        ELSE JsonFile(record_override_update(_load(file), normalized, category))

\* a parsed row of an upload: description, date (NULL when missing) and amount
UploadRow(description, date, amount) == [description |-> description, date |-> date, amount |-> amount]

RECURSIVE _build_transactions(_, _, _, _)
\* _build_transactions(account, rows) with rows = parsed_rows: the transactions built, where probs[i]
\* is what predict_proba returns for the i-th row
_build_transactions(account_type_value, parsed_rows, loaded, probs) ==
    IF parsed_rows = <<>> THEN <<>>
    ELSE LET row == Head(parsed_rows)
             description == strip(or_else(row.description, EmptyStr))
             account_type == AccountType[CHOOSE i \in 1..Len(AccountType) : AccountType[i].name = parse_account_type(account_type_value)]
             prediction == categorize_with_details(loaded, description, Head(probs))
             category == canonicalize_category(prediction.category)
             amount_value == normalize_transaction_amount(row.amount, account_type.value, category)
             rest == _build_transactions(account_type_value, Tail(parsed_rows), loaded, Tail(probs))
         IN  IF description = EmptyStr \/ row.date = NULL THEN rest
             ELSE <<StoredTransaction(account_type_value, description, amount_value, category)>> \o rest

RECURSIVE recategorized(_, _, _)
\* the loop of recategorize_transactions over the stored transactions
recategorized(transactions, loaded, probs) ==
    IF transactions = <<>> THEN <<>>
    ELSE LET txn == Head(transactions)
             new_category == categorize_transaction(loaded, or_else(txn.description_raw, EmptyStr), Head(probs))
         IN  <<[txn EXCEPT !.category = new_category]>> \o recategorized(Tail(transactions), loaded, Tail(probs))

RECURSIVE recategorized_overrides_first(_, _, _, _)
recategorized_overrides_first(transactions, loaded, probs, file) ==
    IF transactions = <<>> THEN <<>>
    ELSE LET txn == Head(transactions)
             override == dict_get(_load(file), normalize_description(or_else(txn.description_raw, EmptyStr)))
             new_category == IF override # None THEN override
                             ELSE categorize_transaction(loaded, or_else(txn.description_raw, EmptyStr), Head(probs))
         IN  <<[txn EXCEPT !.category = new_category]>> \o recategorized_overrides_first(Tail(transactions), loaded, Tail(probs), file)

\* the primary keys the table hands out
TransactionIds == {1}

StoreAccountTypes == {<<"c", "r", "e", "d", "i", "t">>, <<"c", "h", "e", "q", "u", "i", "n", "g">>}
StoreDescriptions == {<<"g", "a", "s">>, <<"t", "h", "a", "n", "k">>}
StoreAmounts == {-50, 50}
CreateCategories == {None, <<"C", "r", "e", "d", "i", "t", " ", "P", "a", "y", "m", "e", "n", "t">>, <<" ", "R", "e", "n", "t", " ">>}
UpdateCategories == {None, <<"C", "r", "e", "d", "i", "t", " ", "P", "a", "y", "m", "e", "n", "t">>}
StoreDate == Date(2024, 1, 15)
UploadRows == {UploadRow(d, <<StoreDate>>, a) : d \in StoreDescriptions, a \in StoreAmounts} \cup {UploadRow(<<" ", " ">>, <<StoreDate>>, 50), UploadRow(<<"g", "a", "s">>, NULL, 50)}

\* a bundle with the labels Rent and Transportation
StoreBundle ==
    train_from_transactions(<<>>, <<>>, <<Txn(<<"g", "a", "s">>, <<"T", "r", "a", "n", "s", "p", "o", "r", "t", "a", "t", "i", "o", "n">>), Txn(<<"R", "E", "N", "T">>, <<"R", "e", "n", "t">>)>>, TRUE,
                            [accuracy |-> 900, macro_f1 |-> 850]).model_file

\* what predict_proba may return for a bundle: an unconfident vector, and a
\* confident one for each label
ProbsFor(loaded) ==
    LET n == IF loaded = NULL THEN 0 ELSE Len(loaded[1].classes)
    IN  IF n <= 1 THEN ProbVectors(n)
        ELSE {Distribution(n, 400)} \cup {Rotation(Distribution(n, AUTO_APPLY_THRESHOLD), shift) : shift \in 0..(n - 1)}

StoreInit ==
    /\ stored = <<>>
    /\ model_file \in {NULL, StoreBundle}
    /\ bundle = model_file
    /\ overrides_file = AbsentFile
    /\ lock = NULL /\ threads = <<>> /\ recorded = <<>>
    /\ arg = <<>> /\ op = "none" /\ ret = <<>>
    /\ AggIdle /\ WorthIdle /\ SwapIdle

StoreUnchanged == UNCHANGED <<arg, aggVars, worthVars, swapVars, lock, threads, recorded>>

\* POST /transactions
CreateTransactions ==
    \E transactions \in {<<>>} \cup {<<StoredTransaction(t, d, a, c)>> : t \in StoreAccountTypes, d \in StoreDescriptions, a \in StoreAmounts, c \in CreateCategories} :
        LET db_transactions == [i \in 1..Len(transactions) |->
                                   LET category == canonicalize_category(transactions[i].category)
                                   IN  [transactions[i] EXCEPT !.category = category,
                                            !.amount = normalize_transaction_amount(transactions[i].amount, transactions[i].account_type, category)]]
        IN  /\ Len(stored) + Len(transactions) <= Cardinality(TransactionIds)
            /\ op' = "create_transactions"
            /\ IF transactions = <<>>
               THEN ret' = <<Raise(HTTPException(400))>> /\ stored' = stored
               ELSE ret' = <<Return(db_transactions)>> /\ stored' = stored \o db_transactions
            /\ UNCHANGED <<categorizerVars, overrides_file>>
            /\ StoreUnchanged

\* POST /uploads/{account_id}/csv and /pdf, after the file has been parsed into rows
UploadRowsOf ==
    \E account_type \in StoreAccountTypes, row \in UploadRows, probs \in ProbsFor(bundle) :
        LET transactions == _build_transactions(account_type, <<row>>, bundle, <<probs>>)
        IN  /\ Len(stored) + 1 <= Cardinality(TransactionIds)
            /\ op' = "upload"
            /\ IF transactions = <<>>
               THEN ret' = <<Raise(HTTPException(400))>> /\ stored' = stored
               ELSE ret' = <<Return(transactions)>> /\ stored' = stored \o transactions
            /\ UNCHANGED <<categorizerVars, overrides_file>>
            /\ StoreUnchanged

\* POST /plaid/sync/{account_id} for a response with one added transaction not
\* stored before and none removed: its amount is negated, its name is the
\* description
SyncTransactions ==
    \E account_type \in StoreAccountTypes, name \in StoreDescriptions \cup {None}, amount \in StoreAmounts, probs \in ProbsFor(bundle) :
        LET row == UploadRow(or_else(name, <<"T", "r", "a", "n", "s", "a", "c", "t", "i", "o", "n">>), <<StoreDate>>, -amount)
            built == _build_transactions(account_type, <<row>>, bundle, <<probs>>)
        IN  /\ Len(stored) + 1 <= Cardinality(TransactionIds)
            /\ op' = "sync"
            /\ ret' = <<Return([added |-> Len(built), modified |-> 0, removed |-> 0])>>
            /\ stored' = stored \o built
            /\ UNCHANGED <<categorizerVars, overrides_file>>
            /\ StoreUnchanged

\* POST /transactions/dev/re-categorize
RecategorizeTransactions_overrides_first ==
    \E probs \in [1..Len(stored) -> ProbsFor(bundle)] :
        LET transactions == recategorized_overrides_first(stored, bundle, probs, overrides_file)
        IN  /\ op' = "recategorize"
            /\ stored' = transactions
            /\ ret' = <<Return([updated |-> Cardinality({i \in 1..Len(stored) : stored[i].category # transactions[i].category}), total |-> Len(stored)])>>
            /\ UNCHANGED <<categorizerVars, overrides_file>>
            /\ StoreUnchanged

RecategorizeTransactions ==
    \E probs \in [1..Len(stored) -> ProbsFor(bundle)] :
        LET transactions == recategorized(stored, bundle, probs)
        IN  /\ op' = "recategorize"
            /\ stored' = transactions
            /\ ret' = <<Return([updated |-> Cardinality({i \in 1..Len(stored) : stored[i].category # transactions[i].category}), total |-> Len(stored)])>>
            /\ UNCHANGED <<categorizerVars, overrides_file>>
            /\ StoreUnchanged

\* PATCH /transactions/{transaction_id}/category for an id that is not stored
UpdateUnknownTransaction ==
    /\ Len(stored) < Cardinality(TransactionIds)
    /\ op' = "update_transaction_category"
    /\ ret' = <<Raise(HTTPException(404))>>
    /\ UNCHANGED <<stored, categorizerVars, overrides_file>>
    /\ StoreUnchanged

\* PATCH /transactions/{transaction_id}/category: the category is stored and
\* recorded as an override before the retraining, whose failure leaves both
UpdateTransactionCategory ==
    \E transaction_id \in 1..Len(stored), category \in UpdateCategories, retrain \in BOOLEAN :
        LET txn == [stored[transaction_id] EXCEPT !.category = canonicalize_category(category)]
            updated == [stored EXCEPT ![transaction_id] = txn]
            categorized == SelectSeq(updated, LAMBDA t : t.category # None)
        IN  /\ op' = "update_transaction_category"
            /\ stored' = updated
            /\ overrides_file' = record_override(overrides_file, or_else(txn.description_raw, EmptyStr), txn.category)
            /\ IF retrain
               THEN \E fits \in BOOLEAN, metrics \in Metrics :
                        LET after == train_from_transactions(bundle, model_file, categorized, fits, metrics)
                        IN  /\ bundle' = after.bundle
                            /\ model_file' = after.model_file
                            /\ ret' = <<IF after.outcome.kind = "raise" THEN after.outcome
                                        ELSE IF ~after.outcome.value.trained THEN Raise(HTTPException(400))
                                        ELSE Return([transaction |-> txn, training |-> <<after.outcome.value>>])>>
               ELSE /\ UNCHANGED categorizerVars
                    /\ ret' = <<Return([transaction |-> txn, training |-> NULL])>>
            /\ StoreUnchanged

\* DELETE /transactions/dev/purge
PurgeAllTransactions ==
    /\ stored # <<>>
    /\ stored' = <<>>
    /\ op' = "purge" /\ ret' = <<Return(None)>>
    /\ UNCHANGED <<categorizerVars, overrides_file>>
    /\ StoreUnchanged

\* POST /categorization/predict
PredictCategory ==
    \E description \in StoreDescriptions, probs \in ProbsFor(bundle) :
        /\ op' = "predict"
        /\ ret' = <<Return(categorize_with_details(bundle, description, probs))>>
        /\ UNCHANGED <<stored, categorizerVars, overrides_file>>
        /\ StoreUnchanged

StoreNext ==
    \/ CreateTransactions
    \/ UploadRowsOf
    \/ SyncTransactions
    \/ RecategorizeTransactions
    \/ UpdateUnknownTransaction
    \/ UpdateTransactionCategory
    \/ PurgeAllTransactions
    \/ PredictCategory

StoreSpec == StoreInit /\ [][StoreNext]_vars

BuiltFrom(row) == {_build_transactions(account_type, <<row>>, bundle, <<probs>>) : account_type \in StoreAccountTypes, probs \in ProbsFor(bundle)}
SyncRows == {UploadRow(or_else(name, <<"T", "r", "a", "n", "s", "a", "c", "t", "i", "o", "n">>), <<StoreDate>>, -amount) : name \in StoreDescriptions \cup {None}, amount \in StoreAmounts}

\* C26: the category assigned by the categorization path (predict,
\* categorize_transaction, categorize_with_details and the upload, sync and
\* re-categorize operations that call them) does not depend on the override
\* store: every such call leaves the store as it was, and its result is one
\* that the loaded bundle, the call's input and the classifier's
\* probabilities determine, whatever the store holds.
C26_OverridesNotConsulted ==
    [][/\ op' \in {"upload", "sync", "recategorize", "predict"} => overrides_file' = overrides_file
       /\ op' = "recategorize" => \E probs \in [1..Len(stored) -> ProbsFor(bundle)] : stored' = recategorized(stored, bundle, probs)
       /\ op' = "upload" => \E row \in UploadRows : \E built \in BuiltFrom(row) : stored' = stored \o built
       /\ op' = "sync" => \E row \in SyncRows : \E built \in BuiltFrom(row) : stored' = stored \o built
       /\ op' = "predict" => \E description \in StoreDescriptions, probs \in ProbsFor(bundle) :
                                 ret' = <<Return(categorize_with_details(bundle, description, probs))>>]_vars

\* re-categorize gives "gas" the category Transportation while the store holds
\* the override Account Transfer for it
C26_Witness ==
    /\ op = "recategorize"
    /\ Len(stored) = 1
    /\ stored[1].description_raw = <<"g", "a", "s">>
    /\ stored[1].category = <<"T", "r", "a", "n", "s", "p", "o", "r", "t", "a", "t", "i", "o", "n">>
    /\ dict_get(_load(overrides_file), <<"g", "a", "s">>) = ACCOUNT_TRANSFER_CATEGORY

IsCreditFamily(txn) == parse_account_type(txn.account_type) \in CREDIT_ACCOUNT_TYPES

\* C28: every stored transaction on a credit-family account satisfies the
\* sign convention with respect to its current category: its amount is <= 0
\* when the category is not the transfer category and >= 0 when it is.
C28_StoredSignConvention ==
    \A i \in 1..Len(stored) :
        IsCreditFamily(stored[i]) =>
            IF stored[i].category = ACCOUNT_TRANSFER_CATEGORY
            THEN stored[i].amount >= 0
            ELSE stored[i].amount <= 0

\* C29: every stored transaction category is canonical: it is None or a label
\* c with canonicalize_category(c) = c.
C29_StoredCategoryCanonical ==
    \A i \in 1..Len(stored) :
        stored[i].category = None \/ canonicalize_category(stored[i].category) = stored[i].category

\* ---------------------------------------------------------------------------
\* One bad row among valid ones in a PDF document (StatementSpec).
\* ---------------------------------------------------------------------------

HasPage(doc, page) == \E i \in 1..Len(doc.pages) : doc.pages[i] = page

\* C27: a single row whose date token or amount cannot be validated is dropped
\* silently and every other valid row of the document is still returned: a
\* document that opens, has no crashing page and holds the grocery row, whose
\* date MAR 3 pandas reads in some year, is extracted without failure and the
\* grocery row is among the rows returned.
C27_BadRowDropped ==
    (/\ op = "PDFTransactionExtractor.extract"
     /\ arg.default_year # NULL
     /\ arg.doc.opens
     /\ FirstCrashingPage(arg.doc.pages) = 0
     /\ HasPage(arg.doc, GroceryPage)) =>
        /\ ret[1].kind = "return"
        /\ \E i \in 1..Len(ret[1].value) : ret[1].value[i].description = <<"G", "R", "O", "C", "E", "R", "Y", " ", "S", "T", "O", "R", "E">>

\* ---------------------------------------------------------------------------
\* The two normalizers side by side (TextSpec).
\* ---------------------------------------------------------------------------

\* C30: SmartCategorizer._normalize_text and normalize_description are the
\* same function: for every text, None and the empty text included, both
\* return the same string, so the normalized_description a prediction reports
\* is the key under which record_override stores an override for that
\* description.
C30_SameNormalizer ==
    /\ op = "normalize_description" => ret[1] = _normalize_text(arg)
    /\ op = "_normalize_text" =>
          /\ ret[1] = normalize_description(arg)
          /\ predict(NULL, arg, <<>>, AUTO_APPLY_THRESHOLD).normalized_description = ret[1]
          /\ record_override(AbsentFile, arg, <<"R", "e", "n", "t">>) =
                 IF ret[1] = EmptyStr THEN AbsentFile ELSE JsonFile(dict_set(EmptyDict, ret[1], <<"R", "e", "n", "t">>))

\* "Pos a;1" is normalized by the categorizer to "a 1", the override key
C30_Witness ==
    /\ op = "_normalize_text"
    /\ arg = <<"P", "o", "s", " ", "a", ";", "1">>
    /\ ret[1] = <<"a", " ", "1">>
    /\ DOMAIN _load(record_override(AbsentFile, arg, <<"R", "e", "n", "t">>)) = {<<"a", " ", "1">>}

====
